---------------------------- MODULE Spec2Model ----------------------------
(***************************************************************************)
(* Feature-build stage of the sports forecasting pipeline                  *)
(* (src/sports_forecast/features/features_build.py): one partition         *)
(* (tournament) is read from the interim layer, gets its basic and lag     *)
(* features, is split by status into a train and an inference table, gets  *)
(* its target on the train side, is projected to the final columns and is  *)
(* written to the processed layer.  run() visits the partitions under the  *)
(* input root in sorted order.  The clean stage                            *)
(* (src/sports_forecast/data/clean.py, raw layer -> interim layer) is the  *)
(* second specification, SpecClean, further down.                          *)
(*                                                                         *)
(* A table (pandas DataFrame) is a record                                  *)
(*     [columns |-> sequence of column names,                              *)
(*      rows    |-> sequence of [idx |-> index label, c |-> name -> cell]] *)
(* and a cell is <<>> (missing, NaN/None) or <<v>> (the value v).          *)
(* An optional config section is <<>> (absent) or <<section>>.             *)
(***************************************************************************)
EXTENDS Integers, Sequences, FiniteSets, TLC

VARIABLES
    cfg,            \* the Hydra config of the run
    interim,        \* matches_interim.parquet of the partition: <<>> or <<table>>
    pc,             \* position of process_tournament
    df,             \* local df of process_tournament
    train_df,       \* local train_df
    inference_df,   \* local inference_df
    files,          \* processed/{tournament}/: file name -> <<>> or <<table>>
    root,           \* input root of run(): <<>> or <<partition name -> its input file>>
    unwritable,     \* names of the output files the file system refuses to write
    run_pc,         \* position of run()
    queue,          \* partitions the loop of run() has still to visit
    current,        \* partition process_tournament was last called for: <<>> or <<name>>
    started,        \* partitions process_tournament was called for, in call order
    finished,       \* partitions whose process_tournament call returned, in order
    clean_cfg,      \* cfg.clean of the clean stage
    raw,            \* matches.parquet of the partition: <<>> or <<table>>
    clean_pc,       \* position of the clean stage's process_tournament
    clean_df,       \* local df of the clean stage's process_tournament
    stale,          \* what an earlier run left in a partition's output directory
    disk,           \* output directory of the partition on disk: name -> <<>> or <<table>>
    LOG_CONFIGURED, \* _LOG_CONFIGURED of utils/logging.py
    root_handlers,  \* handlers of the root logger, in the order they were added
    root_level,     \* level of the root logger
    calls           \* executions of configure_logging so far, explicit or implicit

feature_vars == <<cfg, interim, pc, df, train_df, inference_df, files>>
run_vars == <<root, unwritable, run_pc, queue, current, started, finished>>
clean_vars == <<clean_cfg, raw, clean_pc, clean_df>>
log_vars == <<LOG_CONFIGURED, root_handlers, root_level, calls>>
vars == <<feature_vars, run_vars, clean_vars, stale, disk, log_vars>>

\* ------------------------------------------------------------------ bounds
MaxRows == 3
MaxPeriods == 2
MaxCalls == 4

\* ------------------------------------------------------------------ cells
NaN == <<>>
Val(v) == <<v>>
IsNa(x) == x = NaN

\* mutant of Sub: the operands swapped
Sub_swapped(a, b) == IF IsNa(a) \/ IsNa(b) THEN NaN ELSE Val(b[1] - a[1])
\* home - away, NaN-propagating (pandas Series.__sub__)
Sub(a, b) == IF IsNa(a) \/ IsNa(b) THEN NaN ELSE Val(a[1] - b[1])
\* home + away, NaN-propagating (pandas Series.__add__)
Add(a, b) == IF IsNa(a) \/ IsNa(b) THEN NaN ELSE Val(a[1] + b[1])
\* mutant of Gt: a tie counts as a home win
Gt_or_equal(a, b) == IF IsNa(a) \/ IsNa(b) THEN FALSE ELSE a[1] >= b[1]
\* home > away: a comparison with NaN is False (pandas Series.__gt__)
Gt(a, b) == IF IsNa(a) \/ IsNa(b) THEN FALSE ELSE a[1] > b[1]
\* bool.astype(int)
AsInt(b) == IF b THEN Val(1) ELSE Val(0)

\* ------------------------------------------------------------------ tables
NoTable == [columns |-> <<>>, rows |-> <<>>]

NRows(t) == Len(t.rows)
ColSet(t) == {t.columns[i] : i \in 1..Len(t.columns)}
HasColumn(t, name) == name \in ColSet(t)
\* DataFrame.empty: some axis has length 0
Empty(t) == Len(t.columns) = 0 \/ Len(t.rows) = 0
\* df[name] as a sequence of cells
Column(t, name) == [i \in 1..NRows(t) |-> t.rows[i].c[name]]

\* df[name] = vals: replaces the column in place when it exists, appends it otherwise
SetColumn(t, name, vals) ==
    [columns |-> IF HasColumn(t, name) THEN t.columns ELSE Append(t.columns, name),
     rows    |-> [i \in 1..NRows(t) |->
                    [idx |-> t.rows[i].idx,
                     c   |-> (name :> vals[i]) @@ t.rows[i].c]]]

\* mutant of NoRows: the slice keeps every row
NoRows_all(t) == t
\* df.iloc[0:0]: same columns, no rows
NoRows(t) == [columns |-> t.columns, rows |-> <<>>]

\* df[cols]: projection on the listed names, in the listed order
Project(t, cols) ==
    [columns |-> cols,
     rows    |-> [i \in 1..NRows(t) |->
                    [idx |-> t.rows[i].idx,
                     c   |-> [n \in {cols[j] : j \in 1..Len(cols)} |-> t.rows[i].c[n]]]]]

\* df.drop(columns=[name])
DropColumn(t, name) ==
    Project(t, SelectSeq(t.columns, LAMBDA n : n # name))

\* mutant of Shift: the values move up instead of down
Shift_up(col, periods) ==
    [i \in 1..Len(col) |->
        IF i + periods >= 1 /\ i + periods <= Len(col) THEN col[i + periods] ELSE NaN]

\* Series.shift(periods): row i takes the value of row i - periods, NaN when
\* there is no such row
Shift(col, periods) ==
    [i \in 1..Len(col) |->
        IF i - periods >= 1 /\ i - periods <= Len(col) THEN col[i - periods] ELSE NaN]

\* ------------------------------------------------------------------ config
HasAttr(section) == section # <<>>
Get(section) == section[1]

\* column names of the interim table and of the configured features
MatchId == "match_id"
HomePoints == "home_points"
AwayPoints == "away_points"
Status == "status"
PointsDiff == "points_diff"
PointsTotal == "points_total"
PointsDiffLag == "points_diff_lag1"
PointsTotalLag == "points_total_lag1"
Target == "target"

\* file names of the processed layer (defaults of cfg.outputs)
TrainFile == "train.parquet"
InferenceFile == "inference.parquet"
AllFile == "dataset.parquet"

\* ------------------------------------------------------------ operations
\* the difference entry filling its output with NaN when a source is absent
add_diff_feature_nan_filled(t, basic_cfg) ==
    IF ~HasAttr(basic_cfg.diff) THEN t
    ELSE LET diff_cfg == Get(basic_cfg.diff)
             home_col == diff_cfg.home_column
             away_col == diff_cfg.away_column
         IN IF ~HasColumn(t, home_col) \/ ~HasColumn(t, away_col)
            THEN SetColumn(t, diff_cfg.name, [i \in 1..NRows(t) |-> NaN])
            ELSE SetColumn(t, diff_cfg.name,
                     [i \in 1..NRows(t) |->
                         Sub(t.rows[i].c[home_col], t.rows[i].c[away_col])])

\* the difference entry of cfg.features.basic
add_diff_feature(t, basic_cfg) ==
    IF ~HasAttr(basic_cfg.diff) THEN t
    ELSE LET diff_cfg == Get(basic_cfg.diff)
             home_col == diff_cfg.home_column
             away_col == diff_cfg.away_column
         IN IF ~HasColumn(t, home_col) \/ ~HasColumn(t, away_col) THEN t
            ELSE SetColumn(t, diff_cfg.name,
                     [i \in 1..NRows(t) |->
                         Sub(t.rows[i].c[home_col], t.rows[i].c[away_col])])

\* the sum entry of cfg.features.basic
add_total_feature(t, basic_cfg) ==
    IF ~HasAttr(basic_cfg.total) THEN t
    ELSE LET total_cfg == Get(basic_cfg.total)
             home_col == total_cfg.home_column
             away_col == total_cfg.away_column
         IN IF ~HasColumn(t, home_col) \/ ~HasColumn(t, away_col) THEN t
            ELSE SetColumn(t, total_cfg.name,
                     [i \in 1..NRows(t) |->
                         Add(t.rows[i].c[home_col], t.rows[i].c[away_col])])

\* _add_basic_features with the sum computed before the difference
add_basic_features_total_first(t, c) ==
    IF ~HasAttr(c.features.basic) THEN t
    ELSE LET basic_cfg == Get(c.features.basic)
         IN add_diff_feature(add_total_feature(t, basic_cfg), basic_cfg)

\* _add_basic_features: difference, then sum
add_basic_features(t, c) ==
    IF ~HasAttr(c.features.basic) THEN t
    ELSE LET basic_cfg == Get(c.features.basic)
         IN add_total_feature(add_diff_feature(t, basic_cfg), basic_cfg)

\* one entry of cfg.features.lag: df[new_col] = df[src_col].shift(periods)
add_lag_feature(t, entry) ==
    IF ~HasAttr(entry) THEN t
    ELSE LET lag_cfg == Get(entry)
             src_col == lag_cfg.source_column
         IN IF ~HasColumn(t, src_col) THEN t
            ELSE SetColumn(t, lag_cfg.new_column,
                           Shift(Column(t, src_col), lag_cfg.periods))

\* _add_lag_features: lag of the difference, then lag of the sum
add_lag_features(t, c) ==
    IF ~HasAttr(c.features.lag) THEN t
    ELSE LET lag_cfg == Get(c.features.lag)
         IN add_lag_feature(add_lag_feature(t, lag_cfg.diff), lag_cfg.total)

\* _add_target_column labelling every row 0 when a named column is absent
add_target_column_zero_filled(t, c) ==
    IF ~HasAttr(c.features.target) THEN t
    ELSE LET target_cfg == Get(c.features.target)
             home_col == target_cfg.home_column
             away_col == target_cfg.away_column
         IN IF ~HasColumn(t, home_col) \/ ~HasColumn(t, away_col)
            THEN SetColumn(t, target_cfg.name, [i \in 1..NRows(t) |-> Val(0)])
            ELSE SetColumn(t, target_cfg.name,
                     [i \in 1..NRows(t) |->
                         AsInt(Gt(t.rows[i].c[home_col], t.rows[i].c[away_col]))])

\* _add_target_column: 1 where home > away, else 0
add_target_column(t, c) ==
    IF ~HasAttr(c.features.target) THEN t
    ELSE LET target_cfg == Get(c.features.target)
             home_col == target_cfg.home_column
             away_col == target_cfg.away_column
         IN IF ~HasColumn(t, home_col) \/ ~HasColumn(t, away_col) THEN t
            ELSE SetColumn(t, target_cfg.name,
                     [i \in 1..NRows(t) |->
                         AsInt(Gt(t.rows[i].c[home_col], t.rows[i].c[away_col]))])

\* mutant of drop_by_status: the discard set is ignored
drop_by_status_skipped(t, status_col, drop_statuses) == t

\* df[~df[status_col].isin(drop_statuses)] when drop_statuses is not empty
drop_by_status(t, status_col, drop_statuses) ==
    IF drop_statuses = {} THEN t
    ELSE [columns |-> t.columns,
          rows |-> SelectSeq(t.rows,
                      LAMBDA r : ~(~IsNa(r.c[status_col])
                                   /\ r.c[status_col][1] \in drop_statuses))]

\* the rows with the status literal, last row first
rows_with_status_reversed(t, status_col, literal) ==
    LET found == SelectSeq(t.rows, LAMBDA r : r.c[status_col] = Val(literal))
    IN [columns |-> t.columns,
        rows |-> [i \in 1..Len(found) |-> found[Len(found) + 1 - i]]]

\* df[df[status_col] == literal]
rows_with_status(t, status_col, literal) ==
    [columns |-> t.columns,
     rows |-> SelectSeq(t.rows, LAMBDA r : r.c[status_col] = Val(literal))]

\* mutant of split_by_status: every kept row that is not train goes to inference
split_by_status_rest(t, c) ==
    IF ~HasAttr(c.split) THEN <<t, NoRows(t)>>
    ELSE LET split_cfg == Get(c.split)
             status_col == split_cfg.status_column
         IN IF ~HasColumn(t, status_col) THEN <<NoRows(t), NoRows(t)>>
            ELSE LET kept == drop_by_status(t, status_col, split_cfg.drop_statuses)
                 IN <<rows_with_status(kept, status_col, split_cfg.train_status),
                      [columns |-> kept.columns,
                       rows |-> SelectSeq(kept.rows,
                          LAMBDA r : r.c[status_col] # Val(split_cfg.train_status))]>>

\* mutant of split_by_status: train is taken before the discard
split_by_status_train_first(t, c) ==
    IF ~HasAttr(c.split) THEN <<t, NoRows(t)>>
    ELSE LET split_cfg == Get(c.split)
             status_col == split_cfg.status_column
         IN IF ~HasColumn(t, status_col) THEN <<NoRows(t), NoRows(t)>>
            ELSE LET kept == drop_by_status(t, status_col, split_cfg.drop_statuses)
                 IN <<rows_with_status(t, status_col, split_cfg.train_status),
                      rows_with_status(kept, status_col, split_cfg.inference_status)>>

\* mutant of split_by_status: a missing status column sends everything to train
split_by_status_fail_open(t, c) ==
    IF ~HasAttr(c.split) THEN <<t, NoRows(t)>>
    ELSE LET split_cfg == Get(c.split)
             status_col == split_cfg.status_column
         IN IF ~HasColumn(t, status_col) THEN <<t, NoRows(t)>>
            ELSE LET kept == drop_by_status(t, status_col, split_cfg.drop_statuses)
                 IN <<rows_with_status(kept, status_col, split_cfg.train_status),
                      rows_with_status(kept, status_col, split_cfg.inference_status)>>

\* _split_by_status: <<train_df, inference_df>>
split_by_status(t, c) ==
    IF ~HasAttr(c.split) THEN <<t, NoRows(t)>>
    ELSE LET split_cfg == Get(c.split)
             status_col == split_cfg.status_column
         IN IF ~HasColumn(t, status_col) THEN <<NoRows(t), NoRows(t)>>
            ELSE LET kept == drop_by_status(t, status_col, split_cfg.drop_statuses)
                 IN <<rows_with_status(kept, status_col, split_cfg.train_status),
                      rows_with_status(kept, status_col, split_cfg.inference_status)>>

\* mutant of drop_target_for_inference: nothing is dropped
drop_target_for_inference_skipped(t, c) == t

\* _drop_target_for_inference
drop_target_for_inference(t, c) ==
    IF HasAttr(c.features.target) /\ HasColumn(t, Get(c.features.target).name)
    THEN DropColumn(t, Get(c.features.target).name)
    ELSE t

\* cols of _select_final_columns: meta + features [+ target]
final_cols(c, include_target) ==
    c.features.meta_columns \o c.features.final_columns
      \o (IF include_target /\ HasAttr(c.features.target)
          THEN <<Get(c.features.target).name>> ELSE <<>>)

\* _select_final_columns without the early return on an empty available list
select_final_columns_no_fallback(t, c, include_target) ==
    LET cols == final_cols(c, include_target)
        available_cols == SelectSeq(cols, LAMBDA n : HasColumn(t, n))
    IN Project(t, available_cols)

\* _select_final_columns with the feature columns ahead of the meta columns
select_final_columns_features_first(t, c, include_target) ==
    LET cols == c.features.final_columns \o c.features.meta_columns
                  \o (IF include_target /\ HasAttr(c.features.target)
                      THEN <<Get(c.features.target).name>> ELSE <<>>)
        available_cols == SelectSeq(cols, LAMBDA n : HasColumn(t, n))
    IN IF available_cols = <<>> THEN t ELSE Project(t, available_cols)

\* _select_final_columns
select_final_columns(t, c, include_target) ==
    LET cols == final_cols(c, include_target)
        available_cols == SelectSeq(cols, LAMBDA n : HasColumn(t, n))
    IN IF available_cols = <<>> THEN t ELSE Project(t, available_cols)

\* pd.read_parquet: the stored columns and rows under a fresh RangeIndex 0..n-1
read_parquet(f) ==
    [columns |-> f.columns,
     rows    |-> [i \in 1..Len(f.rows) |-> [idx |-> i - 1, c |-> f.rows[i]]]]

\* what DataFrame.to_parquet(path, index=False) stores: columns and cells, no index
to_parquet(t) ==
    [columns |-> t.columns,
     rows    |-> [i \in 1..NRows(t) |-> t.rows[i].c]]

\* to_parquet refuses a frame whose column names repeat (ValueError)
Writable(t) ==
    \A i, j \in 1..Len(t.columns) : t.columns[i] = t.columns[j] => i = j

\* the partition directory names of the inputs, in ascending order
TournamentNames == <<"a_league", "b_league", "c_league">>
Rank(name) == CHOOSE i \in 1..Len(TournamentNames) : TournamentNames[i] = name

\* sorted(paths): the sequence of the set's names in ascending order
sorted(S) ==
    CHOOSE q \in [1..Cardinality(S) -> S] :
        \A i, j \in 1..Cardinality(S) : i < j => Rank(q[i]) < Rank(q[j])

\* --------------------------------------------------------------- actions
\* process_tournament up to the load: a missing file or an empty table ends it
Load ==
    /\ pc = "start"
    /\ IF ~HasAttr(interim)
       THEN pc' = "done" /\ df' = df
       ELSE LET t == read_parquet(Get(interim))
            IN /\ df' = t
               /\ pc' = IF Empty(t) THEN "done" ELSE "basic"
    /\ UNCHANGED <<cfg, interim, train_df, inference_df, files>>
    /\ UNCHANGED <<run_vars, clean_vars, stale, disk, log_vars>>

AddBasicFeatures ==
    /\ pc = "basic"
    /\ df' = add_basic_features(df, cfg)
    /\ pc' = "lag"
    /\ UNCHANGED <<cfg, interim, train_df, inference_df, files>>
    /\ UNCHANGED <<run_vars, clean_vars, stale, disk, log_vars>>

AddLagFeatures ==
    /\ pc = "lag"
    /\ df' = add_lag_features(df, cfg)
    /\ pc' = "split"
    /\ UNCHANGED <<cfg, interim, train_df, inference_df, files>>
    /\ UNCHANGED <<run_vars, clean_vars, stale, disk, log_vars>>

\* the split with the lag features shifted again within each output
SplitByStatus_lag_per_output ==
    /\ pc = "split"
    /\ train_df' = add_lag_features(split_by_status(df, cfg)[1], cfg)
    /\ inference_df' = add_lag_features(split_by_status(df, cfg)[2], cfg)
    /\ pc' = "target"
    /\ UNCHANGED <<cfg, interim, df, files>>
    /\ UNCHANGED <<run_vars, clean_vars, stale, disk, log_vars>>

SplitByStatus ==
    /\ pc = "split"
    /\ train_df' = split_by_status(df, cfg)[1]
    /\ inference_df' = split_by_status(df, cfg)[2]
    /\ pc' = "target"
    /\ UNCHANGED <<cfg, interim, df, files>>
    /\ UNCHANGED <<run_vars, clean_vars, stale, disk, log_vars>>

AddTargetColumn ==
    /\ pc = "target"
    /\ train_df' = add_target_column(train_df, cfg)
    /\ pc' = "drop_target"
    /\ UNCHANGED <<cfg, interim, df, inference_df, files>>
    /\ UNCHANGED <<run_vars, clean_vars, stale, disk, log_vars>>

DropTargetForInference ==
    /\ pc = "drop_target"
    /\ inference_df' = drop_target_for_inference(inference_df, cfg)
    /\ pc' = "select_train"
    /\ UNCHANGED <<cfg, interim, df, train_df, files>>
    /\ UNCHANGED <<run_vars, clean_vars, stale, disk, log_vars>>

SelectFinalTrain ==
    /\ pc = "select_train"
    /\ train_df' = select_final_columns(train_df, cfg, TRUE)
    /\ pc' = "select_inference"
    /\ UNCHANGED <<cfg, interim, df, inference_df, files>>
    /\ UNCHANGED <<run_vars, clean_vars, stale, disk, log_vars>>

SelectFinalInference ==
    /\ pc = "select_inference"
    /\ inference_df' = select_final_columns(inference_df, cfg, FALSE)
    /\ pc' = "write_train"
    /\ UNCHANGED <<cfg, interim, df, train_df, files>>
    /\ UNCHANGED <<run_vars, clean_vars, stale, disk, log_vars>>

\* the train write removing train.parquet when the train subset is empty
WriteTrain_removes_old ==
    /\ pc = "write_train"
    /\ IF Empty(train_df)
       THEN /\ pc' = "write_inference" /\ files' = files
            /\ disk' = [disk EXCEPT ![TrainFile] = <<>>]
       ELSE IF Writable(train_df) /\ TrainFile \notin unwritable
            THEN /\ files' = [files EXCEPT ![TrainFile] = <<to_parquet(train_df)>>]
                 /\ disk' = [disk EXCEPT ![TrainFile] = <<to_parquet(train_df)>>]
                 /\ pc' = "write_inference"
            ELSE pc' = "raised" /\ files' = files /\ disk' = disk
    /\ UNCHANGED <<cfg, interim, df, train_df, inference_df>>
    /\ UNCHANGED <<run_vars, clean_vars, stale, log_vars>>

\* if not train_df.empty: train_df.to_parquet(train_path, index=False)
WriteTrain ==
    /\ pc = "write_train"
    /\ IF Empty(train_df)
       THEN pc' = "write_inference" /\ files' = files /\ disk' = disk
       ELSE IF Writable(train_df) /\ TrainFile \notin unwritable
            THEN /\ files' = [files EXCEPT ![TrainFile] = <<to_parquet(train_df)>>]
                 /\ disk' = [disk EXCEPT ![TrainFile] = <<to_parquet(train_df)>>]
                 /\ pc' = "write_inference"
            ELSE pc' = "raised" /\ files' = files /\ disk' = disk
    /\ UNCHANGED <<cfg, interim, df, train_df, inference_df>>
    /\ UNCHANGED <<run_vars, clean_vars, stale, log_vars>>

\* if not inference_df.empty: inference_df.to_parquet(inf_path, index=False)
WriteInference ==
    /\ pc = "write_inference"
    /\ IF Empty(inference_df)
       THEN pc' = "write_all" /\ files' = files /\ disk' = disk
       ELSE IF Writable(inference_df) /\ InferenceFile \notin unwritable
            THEN /\ files' = [files EXCEPT ![InferenceFile] = <<to_parquet(inference_df)>>]
                 /\ disk' = [disk EXCEPT ![InferenceFile] = <<to_parquet(inference_df)>>]
                 /\ pc' = "write_all"
            ELSE pc' = "raised" /\ files' = files /\ disk' = disk
    /\ UNCHANGED <<cfg, interim, df, train_df, inference_df>>
    /\ UNCHANGED <<run_vars, clean_vars, stale, log_vars>>

\* if save_all: df.to_parquet(all_path, index=False)
WriteAll ==
    /\ pc = "write_all"
    /\ IF ~cfg.outputs.save_all
       THEN pc' = "done" /\ files' = files /\ disk' = disk
       ELSE IF AllFile \notin unwritable
            THEN /\ files' = [files EXCEPT ![AllFile] = <<to_parquet(df)>>]
                 /\ disk' = [disk EXCEPT ![AllFile] = <<to_parquet(df)>>]
                 /\ pc' = "done"
            ELSE pc' = "raised" /\ files' = files /\ disk' = disk
    /\ UNCHANGED <<cfg, interim, df, train_df, inference_df>>
    /\ UNCHANGED <<run_vars, clean_vars, stale, log_vars>>

InterimFile == "matches_interim.parquet"

\* an output directory without any file of the two stages
EmptyDir == [f \in {TrainFile, InferenceFile, AllFile, InterimFile} |-> <<>>]

\* the output directory of a partition before the run has written to it
NoFiles == [f \in {TrainFile, InferenceFile, AllFile} |-> <<>>]

\* process_tournament(tournament_dir, cfg) is entered for the partition name
CallProcessTournament(name) ==
    /\ current' = <<name>>
    /\ started' = Append(started, name)
    /\ interim' = Get(root)[name]
    /\ pc' = "start"
    /\ df' = NoTable
    /\ train_df' = NoTable
    /\ inference_df' = NoTable
    /\ files' = NoFiles
    /\ disk' = stale

\* run(cfg) up to the first call: a missing interim root raises RuntimeError,
\* no partition directory ends the run, else the loop starts on the sorted list
Run ==
    /\ run_pc = "start"
    /\ pc = "idle"
    /\ IF ~HasAttr(root)
       THEN /\ run_pc' = "raised"
            /\ UNCHANGED <<queue, current, started, interim, pc, df, train_df,
                           inference_df, files, disk>>
       ELSE LET tournaments == sorted(DOMAIN Get(root))
            IN IF tournaments = <<>>
               THEN /\ run_pc' = "done"
                    /\ UNCHANGED <<queue, current, started, interim, pc, df, train_df,
                                   inference_df, files, disk>>
               ELSE /\ run_pc' = "loop"
                    /\ queue' = Tail(tournaments)
                    /\ CallProcessTournament(Head(tournaments))
    /\ UNCHANGED <<cfg, root, unwritable, finished, clean_vars, stale, log_vars>>

\* process_tournament returned: the loop of run() takes the next partition
NextTournament ==
    /\ run_pc = "loop"
    /\ pc = "done"
    /\ finished' = Append(finished, Get(current))
    /\ IF queue = <<>>
       THEN /\ run_pc' = "done"
            /\ UNCHANGED <<queue, current, started, interim, pc, df, train_df,
                           inference_df, files, disk>>
       ELSE /\ run_pc' = "loop"
            /\ queue' = Tail(queue)
            /\ CallProcessTournament(Head(queue))
    /\ UNCHANGED <<cfg, root, unwritable, clean_vars, stale, log_vars>>

\* process_tournament raised: nothing in run() catches, the exception leaves run()
Escape ==
    /\ run_pc = "loop"
    /\ pc = "raised"
    /\ run_pc' = "raised"
    /\ UNCHANGED <<feature_vars, root, unwritable, queue, current, started, finished,
                   clean_vars, stale, disk, log_vars>>

\* ------------------------------------------------------------------ inputs
\* the sections of conf/features_basic.yaml as the module docstring gives them
DiffCfg == [home_column |-> HomePoints, away_column |-> AwayPoints, name |-> PointsDiff]
TotalCfg == [home_column |-> HomePoints, away_column |-> AwayPoints, name |-> PointsTotal]
BasicCfg == [diff |-> <<DiffCfg>>, total |-> <<TotalCfg>>]
LagCfg(k) ==
    [diff  |-> <<[source_column |-> PointsDiff, new_column |-> PointsDiffLag,
                  periods |-> k]>>,
     total |-> <<[source_column |-> PointsTotal, new_column |-> PointsTotalLag,
                  periods |-> k]>>]
TargetCfg == [name |-> Target, home_column |-> HomePoints, away_column |-> AwayPoints]
SplitCfg(train, inference, drop) ==
    [status_column |-> Status, train_status |-> train,
     inference_status |-> inference, drop_statuses |-> drop]
FinalColumns == <<PointsDiff, PointsTotal, PointsDiffLag, PointsTotalLag>>

MkCfg(basic, lag, target, meta, final, split, save_all) ==
    [features |-> [basic |-> basic, lag |-> lag, target |-> target,
                   meta_columns |-> meta, final_columns |-> final],
     split    |-> split,
     outputs  |-> [save_all |-> save_all]]

\* the column layouts of the interim file that the inputs cover
BaseColumns == <<MatchId, HomePoints, AwayPoints, Status>>
NoStatusColumns == <<MatchId, HomePoints, AwayPoints>>
NoAwayColumns == <<MatchId, HomePoints, Status>>
WithTargetColumns == <<MatchId, HomePoints, AwayPoints, Status, Target>>
NoAwayWithTargetColumns == <<MatchId, HomePoints, Status, Target>>

\* the rows the input tables are built from (home_points, away_points, status)
Match(home, away, status) ==
    [home_points |-> home, away_points |-> away, status |-> status]
RowPool ==
    { Match(Val(1), Val(0), Val("finished")),
      Match(Val(0), Val(1), Val("upcoming")),
      Match(Val(1), Val(1), Val("cancelled")),
      Match(NaN,    Val(0), NaN) }

\* the label a target column already stored in the interim file carries
StaleLabel == Val(2)

\* the stored file with the given column layout and the given matches; match_id
\* numbers the matches, a stored target column holds a stale label
StoredTable(columns, matches) ==
    [columns |-> columns,
     rows    |-> [i \in 1..Len(matches) |->
                    [n \in {columns[j] : j \in 1..Len(columns)} |->
                        IF n = MatchId THEN Val(i)
                        ELSE IF n = Target THEN StaleLabel
                        ELSE matches[i][n]]]]

MatchSeqs(pool, n) == UNION {[1..k -> pool] : k \in 0..n}

StatusLiterals == {"finished", "upcoming"}
DropSets == {{}, {"cancelled"}, {"finished"}}
DefaultSplit == SplitCfg("finished", "upcoming", {"cancelled"})

\* the clean stage while the feature-build stage runs: idle
CleanIdle ==
    /\ clean_cfg = <<>>
    /\ raw = <<>>
    /\ clean_pc = "off"
    /\ clean_df = NoTable

\* utils/logging.py as imported: not configured, the root logger of the logging
\* library without handlers and at WARNING
LogIdle ==
    /\ LOG_CONFIGURED = FALSE
    /\ root_handlers = <<>>
    /\ root_level = 30
    /\ calls = 0

\* run() not yet entered
RunStart ==
    /\ run_pc = "start"
    /\ queue = <<>>
    /\ current = <<>>
    /\ started = <<>>
    /\ finished = <<>>

\* run() not yet entered, the output directories empty
RunLocals ==
    /\ RunStart
    /\ stale = EmptyDir
    /\ disk = stale
    /\ LogIdle

\* the input root with the one partition whose file is given
OnePartition(file) == [name \in {TournamentNames[1]} |-> file]

\* process_tournament not yet called
FeatureLocals ==
    /\ interim = <<>>
    /\ pc = "idle"
    /\ df = NoTable
    /\ train_df = NoTable
    /\ inference_df = NoTable
    /\ files = NoFiles

Locals ==
    /\ FeatureLocals
    /\ unwritable = {}
    /\ RunLocals
    /\ CleanIdle

\* every split configuration over every table, with and without a status column
InitSplitCases ==
    /\ \E columns \in {BaseColumns, NoStatusColumns} :
       \E matches \in MatchSeqs(RowPool, MaxRows) :
          root = <<OnePartition(<<StoredTable(columns, matches)>>)>>
    /\ \E split \in {<<>>} \cup
                    {<<SplitCfg(t, i, d)>> : t \in StatusLiterals,
                                             i \in StatusLiterals, d \in DropSets} :
          cfg = MkCfg(<<BasicCfg>>, <<LagCfg(1)>>, <<TargetCfg>>, <<MatchId>>, FinalColumns,
                      split, FALSE)
    /\ Locals

\* the final-column lists: the configured one, one that names the target, one
\* that matches no column, and none
FinalLists == {FinalColumns, <<PointsDiff, Target>>, <<"odds">>, <<>>}

\* every target and final-column configuration over every table and layout
InitFeatureCases ==
    /\ \E columns \in {BaseColumns, NoAwayColumns, WithTargetColumns} :
       \E matches \in MatchSeqs(RowPool, MaxRows) :
          root = <<OnePartition(<<StoredTable(columns, matches)>>)>>
    /\ \E target \in {<<>>, <<TargetCfg>>} :
       \E final \in FinalLists :
       \E split \in {<<>>, <<DefaultSplit>>} :
          cfg = MkCfg(<<BasicCfg>>, <<LagCfg(1)>>, target, <<>>, final, split, TRUE)
    /\ Locals

\* a stored target column in a file without the away column of the target spec
InitStoredTargetCases ==
    /\ \E matches \in MatchSeqs(RowPool, MaxRows) :
          root = <<OnePartition(<<StoredTable(NoAwayWithTargetColumns, matches)>>)>>
    /\ \E final \in {FinalColumns, <<"odds">>} :
          cfg = MkCfg(<<BasicCfg>>, <<LagCfg(1)>>, <<TargetCfg>>, <<>>, final,
                      <<DefaultSplit>>, TRUE)
    /\ Locals

\* every shift count over every table, with and without the lag's source column
InitLagCases ==
    /\ \E columns \in {BaseColumns, NoAwayColumns} :
       \E matches \in MatchSeqs(RowPool, MaxRows) :
          root = <<OnePartition(<<StoredTable(columns, matches)>>)>>
    /\ \E k \in -1..MaxPeriods :
          cfg = MkCfg(<<BasicCfg>>, <<LagCfg(k)>>, <<TargetCfg>>, <<MatchId>>,
                      FinalColumns, <<DefaultSplit>>, TRUE)
    /\ Locals

\* a difference entry whose away column no table has, and a sum entry that
\* adds the away points to the output of the difference entry
OddsDiffCfg == [home_column |-> HomePoints, away_column |-> "away_odds", name |-> PointsDiff]
ChainedTotalCfg == [home_column |-> PointsDiff, away_column |-> AwayPoints, name |-> PointsTotal]

\* every pair of basic entries, computable or not, with the lags of both outputs
InitEntryCases ==
    /\ \E matches \in MatchSeqs(RowPool, MaxRows) :
          root = <<OnePartition(<<StoredTable(BaseColumns, matches)>>)>>
    /\ \E diff \in {<<>>, <<DiffCfg>>, <<OddsDiffCfg>>} :
       \E total \in {<<TotalCfg>>, <<ChainedTotalCfg>>} :
          cfg = MkCfg(<<[diff |-> diff, total |-> total]>>, <<LagCfg(1)>>, <<TargetCfg>>,
                      <<MatchId>>, FinalColumns, <<DefaultSplit>>, TRUE)
    /\ Locals

\* the files an earlier run of the feature-build stage left in the output
\* directory of the partition
OldFile == [columns |-> <<"odds">>, rows |-> <<[odds |-> Val(9)]>>]
OldProcessedDir ==
    [f \in {TrainFile, InferenceFile, AllFile, InterimFile} |->
        IF f = InterimFile THEN <<>> ELSE <<OldFile>>]

\* a second run over an output directory that holds the files of an earlier
\* run: every table, the absent file, with and without dataset.parquet
InitStaleCases ==
    /\ \E file \in {<<>>} \cup {<<StoredTable(BaseColumns, matches)>> :
                                   matches \in MatchSeqs(RowPool, MaxRows)} :
          root = <<OnePartition(file)>>
    /\ \E save_all \in BOOLEAN :
          cfg = MkCfg(<<BasicCfg>>, <<LagCfg(1)>>, <<TargetCfg>>, <<MatchId>>, FinalColumns,
                      <<DefaultSplit>>, save_all)
    /\ FeatureLocals
    /\ unwritable = {}
    /\ RunStart /\ LogIdle /\ CleanIdle
    /\ stale = OldProcessedDir
    /\ disk = stale

\* the partition directory without its matches_interim.parquet
InitNoFile ==
    /\ root = <<OnePartition(<<>>)>>
    /\ cfg = MkCfg(<<BasicCfg>>, <<LagCfg(1)>>, <<TargetCfg>>, <<MatchId>>, FinalColumns,
                   <<DefaultSplit>>, FALSE)
    /\ Locals

\* the four-match partition of the end-to-end scenario: a difference feature, its
\* lag by one row, a target, a split on finished / upcoming
ScenarioMatches ==
    << Match(Val(1), Val(0), Val("finished")),
       Match(Val(2), Val(1), Val("finished")),
       Match(Val(0), Val(2), Val("finished")),
       Match(Val(3), Val(1), Val("upcoming")) >>
ScenarioFile == StoredTable(<<HomePoints, AwayPoints, Status>>, ScenarioMatches)
ScenarioCfg ==
    MkCfg(<<[diff |-> <<DiffCfg>>, total |-> <<>>]>>,
          <<[diff |-> <<[source_column |-> PointsDiff, new_column |-> PointsDiffLag,
                         periods |-> 1]>>,
             total |-> <<>>]>>,
          <<TargetCfg>>, <<>>, <<PointsDiff, PointsDiffLag>>,
          <<SplitCfg("finished", "upcoming", {})>>, TRUE)

InitScenario ==
    /\ root = <<OnePartition(<<ScenarioFile>>)>>
    /\ cfg = ScenarioCfg
    /\ Locals

\* the input files of the partitions of a run over several partitions: absent,
\* an empty table, finished matches only, finished and upcoming matches
RunFiles ==
    { <<>>,
      <<StoredTable(BaseColumns, <<>>)>>,
      <<StoredTable(BaseColumns, <<Match(Val(1), Val(0), Val("finished"))>>)>>,
      <<StoredTable(BaseColumns, <<Match(Val(1), Val(0), Val("finished")),
                                   Match(Val(0), Val(1), Val("upcoming"))>>)>> }

\* the input roots: absent, or any set of partition directories over RunFiles
Roots ==
    {<<>>} \cup
    {<<d>> : d \in UNION {[S -> RunFiles] :
                             S \in SUBSET {TournamentNames[i] :
                                              i \in 1..Len(TournamentNames)}}}

\* run() over every root, with the configured final columns and with a list that
\* names the target, on a file system that writes every file and on one that
\* refuses inference.parquet
InitRunCases ==
    /\ root \in Roots
    /\ \E final \in {FinalColumns, <<PointsDiff, Target>>} :
          cfg = MkCfg(<<BasicCfg>>, <<LagCfg(1)>>, <<TargetCfg>>, <<>>, final,
                      <<DefaultSplit>>, TRUE)
    /\ unwritable \in {{}, {InferenceFile}}
    /\ FeatureLocals
    /\ RunLocals
    /\ CleanIdle

Init ==
    \/ InitSplitCases
    \/ InitFeatureCases
    \/ InitStoredTargetCases
    \/ InitLagCases
    \/ InitEntryCases
    \/ InitStaleCases
    \/ InitNoFile
    \/ InitScenario
    \/ InitRunCases

Next ==
    \/ Run
    \/ NextTournament
    \/ Escape
    \/ Load
    \/ AddBasicFeatures
    \/ AddLagFeatures
    \/ SplitByStatus
    \/ AddTargetColumn
    \/ DropTargetForInference
    \/ SelectFinalTrain
    \/ SelectFinalInference
    \/ WriteTrain
    \/ WriteInference
    \/ WriteAll

Spec == Init /\ [][Next]_vars

\* ------------------------------------------------------------ properties
\* the split has run on a loaded, non-empty table
AfterSplit ==
    /\ pc \in {"target", "drop_target", "select_train", "select_inference",
               "write_train", "write_inference", "write_all", "raised", "done"}
    /\ ~Empty(df)

HasSplit == HasAttr(cfg.split)
StatusColumnPresent == HasSplit /\ HasColumn(df, Get(cfg.split).status_column)

\* the rows of the table given to the splitter, by index label
InTrain(r) == \E j \in 1..NRows(train_df) : train_df.rows[j].idx = r.idx
InInference(r) == \E j \in 1..NRows(inference_df) : inference_df.rows[j].idx = r.idx
StatusOf(r) == r.c[Get(cfg.split).status_column]
StatusIs(r, literal) == StatusOf(r) = Val(literal)
Discarded(r) ==
    ~IsNa(StatusOf(r)) /\ StatusOf(r)[1] \in Get(cfg.split).drop_statuses
Unclassified(r) ==
    /\ ~Discarded(r)
    /\ ~StatusIs(r, Get(cfg.split).train_status)
    /\ ~StatusIs(r, Get(cfg.split).inference_status)
DfRows == {df.rows[i] : i \in 1..NRows(df)}
ExactlyOne(a, b, c) == (a /\ ~b /\ ~c) \/ (~a /\ b /\ ~c) \/ (~a /\ ~b /\ c)

\* C1: whatever the table and the split configuration, no row of the input is in
\* both the train and the inference output of _split_by_status.
C1_TrainInferenceDisjoint ==
    AfterSplit => \A r \in DfRows : ~(InTrain(r) /\ InInference(r))

\* C2 as stated: a row is in the train output if and only if its status equals
\* the train literal.
C2_TrainIffTrainLiteral ==
    (AfterSplit /\ StatusColumnPresent) =>
        \A r \in DfRows : InTrain(r) <=> StatusIs(r, Get(cfg.split).train_status)

\* C2 as amended: a row is in the train output if and only if its status equals
\* the train literal and is not in the discard set.
C2_TrainIffKeptTrainLiteral ==
    (AfterSplit /\ StatusColumnPresent) =>
        \A r \in DfRows :
            InTrain(r) <=>
                (StatusIs(r, Get(cfg.split).train_status) /\ ~Discarded(r))

C2_Witness ==
    /\ pc = "target" /\ StatusColumnPresent
    /\ \E r \in DfRows : InTrain(r)
    /\ \E r \in DfRows : Discarded(r) /\ ~InTrain(r)
    /\ \E r \in DfRows : Unclassified(r) /\ ~InTrain(r)

C5_FailClosed ==
    (HasSplit /\ ~StatusColumnPresent /\ pc # "start") =>
        /\ AfterSplit => (NRows(train_df) = 0 /\ NRows(inference_df) = 0)
        /\ files[TrainFile] = <<>>
        /\ files[InferenceFile] = <<>>

C5_Witness ==
    /\ pc = "done" /\ HasSplit /\ ~StatusColumnPresent
    /\ NRows(df) = MaxRows

\* C6: without a split spec the train output is the whole table, same rows in
\* the same order, and the inference output has zero rows.
C6_NoSplitAllTrain ==
    (pc = "target" /\ ~HasSplit) =>
        /\ train_df = df
        /\ NRows(inference_df) = 0
        /\ inference_df.columns = df.columns

C6_Witness ==
    pc = "target" /\ ~HasSplit /\ NRows(train_df) = MaxRows


\* the target step has run / the inference-side drop has run
TargetName == Get(cfg.features.target).name
HasTarget == HasAttr(cfg.features.target)
\* the table carries the stored target column of the input, or none
TargetAsStored(t) ==
    IF HasAttr(interim) /\ HasColumn(Get(interim), Target)
    THEN HasColumn(t, Target) /\ \A i \in 1..NRows(t) : t.rows[i].c[Target] = StaleLabel
    ELSE ~HasColumn(t, Target)
TargetDerived ==
    /\ pc = "drop_target" /\ HasTarget
    /\ HasColumn(train_df, Get(cfg.features.target).home_column)
    /\ HasColumn(train_df, Get(cfg.features.target).away_column)
HomeWins(r) ==
    LET home == r.c[Get(cfg.features.target).home_column]
        away == r.c[Get(cfg.features.target).away_column]
    IN ~IsNa(home) /\ ~IsNa(away) /\ home[1] > away[1]

\* C7: when both named columns exist the target column of the train table holds
\* only 0 and 1, and 1 exactly where home is strictly greater than away (a tie or
\* a missing value gives 0); the unsplit table and the inference table do not
\* get it.
C7_TargetCorrect ==
    /\ TargetDerived =>
          /\ HasColumn(train_df, TargetName)
          /\ \A i \in 1..NRows(train_df) :
                LET y == train_df.rows[i].c[TargetName]
                IN /\ y \in {Val(0), Val(1)}
                   /\ y = Val(1) <=> HomeWins(train_df.rows[i])
    /\ AfterSplit => TargetAsStored(df)
    /\ (pc = "drop_target" /\ ~Empty(df)) => TargetAsStored(inference_df)

C7_Witness ==
    /\ TargetDerived
    /\ \E i \in 1..NRows(train_df) : train_df.rows[i].c[TargetName] = Val(1)
    /\ \E i \in 1..NRows(train_df) :
          /\ train_df.rows[i].c[HomePoints] = train_df.rows[i].c[AwayPoints]
          /\ train_df.rows[i].c[TargetName] = Val(0)
    /\ \E i \in 1..NRows(train_df) :
          /\ IsNa(train_df.rows[i].c[HomePoints])
          /\ train_df.rows[i].c[TargetName] = Val(0)

\* C8: with a target spec the inference table, once the drop has run, and the
\* inference file never contain a column with the target name.
C8_InferenceWithoutTarget ==
    HasTarget =>
        /\ (pc \in {"select_train", "select_inference", "write_train",
                    "write_inference", "write_all", "raised", "done"})
              => ~HasColumn(inference_df, TargetName)
        /\ HasAttr(files[InferenceFile])
              => ~HasColumn(Get(files[InferenceFile]), TargetName)

C8_Witness ==
    /\ pc = "done" /\ HasTarget /\ HasAttr(interim)
    /\ HasColumn(Get(interim), TargetName)
    /\ \E i \in 1..Len(cfg.features.final_columns) :
          cfg.features.final_columns[i] = TargetName
    /\ HasAttr(files[InferenceFile])

\* C9: for a lag entry with periods = k on a table of n rows that has the source
\* column, the output at row i (counted from 0) is the source at row i - k for
\* i >= k and is missing for i < k.
LagCorrect(entry) ==
    LET k == entry.periods
        n == NRows(df)
        src(i) == df.rows[i + 1].c[entry.source_column]
        out(i) == df.rows[i + 1].c[entry.new_column]
    IN HasColumn(df, entry.source_column) =>
          /\ HasColumn(df, entry.new_column)
          /\ \A i \in 0..(n - 1) :
                /\ (i >= k /\ i - k <= n - 1) => out(i) = src(i - k)
                /\ (i >= k /\ i - k > n - 1) => IsNa(out(i))
                /\ i < k => IsNa(out(i))

C9_LagCorrect ==
    (pc = "split" /\ HasAttr(cfg.features.lag)) =>
        LET lag_cfg == Get(cfg.features.lag)
        IN /\ HasAttr(lag_cfg.diff) => LagCorrect(Get(lag_cfg.diff))
           /\ HasAttr(lag_cfg.total) => LagCorrect(Get(lag_cfg.total))

C9_Witness ==
    /\ pc = "split" /\ HasAttr(cfg.features.lag)
    /\ Get(Get(cfg.features.lag).diff).periods = 2
    /\ NRows(df) >= 3
    /\ HasColumn(df, PointsDiffLag)
    /\ IsNa(df.rows[2].c[PointsDiffLag])
    /\ df.rows[3].c[PointsDiffLag] = Val(1)
    /\ df.rows[1].c[PointsDiff] = Val(1)
    /\ df.rows[3].c[PointsDiff] # Val(1)

\* C10: the end-to-end scenario: points_diff = [1,1,-2,2] and points_diff_lag1 =
\* [missing,1,1,-2] on the whole table; train is rows 0..2 with target [1,1,0];
\* inference is row 3 alone, without a target column, with points_diff = 2 and
\* points_diff_lag1 = -2.
Scenario == root = <<OnePartition(<<ScenarioFile>>)>> /\ cfg = ScenarioCfg
Labels(t) == [i \in 1..NRows(t) |-> t.rows[i].idx]
C10_Scenario ==
    (Scenario /\ pc = "done") =>
        /\ Column(df, PointsDiff) = <<Val(1), Val(1), Val(-2), Val(2)>>
        /\ Column(df, PointsDiffLag) = <<NaN, Val(1), Val(1), Val(-2)>>
        /\ Labels(train_df) = <<0, 1, 2>>
        /\ Column(train_df, Target) = <<Val(1), Val(1), Val(0)>>
        /\ Labels(inference_df) = <<3>>
        /\ ~HasColumn(inference_df, Target)
        /\ Column(inference_df, PointsDiff) = <<Val(2)>>
        /\ Column(inference_df, PointsDiffLag) = <<Val(-2)>>
        /\ files[TrainFile] =
              <<[columns |-> <<PointsDiff, PointsDiffLag, Target>>,
                 rows |-> << [points_diff |-> Val(1), points_diff_lag1 |-> NaN,
                              target |-> Val(1)],
                             [points_diff |-> Val(1), points_diff_lag1 |-> Val(1),
                              target |-> Val(1)],
                             [points_diff |-> Val(-2), points_diff_lag1 |-> Val(1),
                              target |-> Val(0)] >>]>>
        /\ files[InferenceFile] =
              <<[columns |-> <<PointsDiff, PointsDiffLag>>,
                 rows |-> << [points_diff |-> Val(2), points_diff_lag1 |-> Val(-2)] >>]>>

C10_Witness ==
    Scenario /\ pc = "done" /\ HasAttr(files[TrainFile]) /\ HasAttr(files[InferenceFile])

\* =================================================== the clean stage
\* src/sports_forecast/data/clean.py: raw/{tournament}/matches.parquet ->
\* interim/{tournament}/matches_interim.parquet.  A clean-stage table is
\* [columns |-> sequence of names, rows |-> sequence of [idx, c]], c the sequence
\* of the row's cells by column position, so that two columns may carry the same
\* name after a rename.  A cell is [k |-> kind, v |-> number]:
\*   missing      None / NaN / NaT
\*   numeral      text that reads as the whole number v
\*   inf_text     the text "inf"
\*   date_text    text that reads as the date v
\*   junk         text that is neither a number nor a date
\*   nan_text     the text "nan", what astype(str) makes of a missing value
\*   float_text   the text of the float v
\*   int64, float64, float64_inf, datetime64    typed values

Missing == [k |-> "missing", v |-> 0]
Numeral(n) == [k |-> "numeral", v |-> n]
InfText == [k |-> "inf_text", v |-> 0]
DateText(d) == [k |-> "date_text", v |-> d]
Junk == [k |-> "junk", v |-> 0]
Int64(n) == [k |-> "int64", v |-> n]
Float64(n) == [k |-> "float64", v |-> n]
Inf == [k |-> "float64_inf", v |-> 0]
Datetime64(d) == [k |-> "datetime64", v |-> d]

\* Series.isna() of one cell
isna(x) == x.k = "missing"

\* the positions of the columns called name
Positions(t, name) == {i \in 1..Len(t.columns) : t.columns[i] = name}

\* df[name] of a name that one column carries: the cells of that column
Cells(t, name) ==
    LET p == CHOOSE i \in Positions(t, name) : TRUE
    IN [i \in 1..NRows(t) |-> t.rows[i].c[p]]

\* df[name] = cells: every column called name takes the cells
Assign(t, name, cells) ==
    [t EXCEPT !.rows = [i \in 1..NRows(t) |->
        [t.rows[i] EXCEPT !.c = [p \in 1..Len(t.columns) |->
            IF t.columns[p] = name THEN cells[i] ELSE t.rows[i].c[p]]]]]

\* ------------------------------------------------------- column mapper
\* _apply_column_mapping: the entries whose old name is a column are applied in
\* one DataFrame.rename
apply_column_mapping(t, mapping) ==
    LET present == {old_name \in DOMAIN mapping : HasColumn(t, old_name)}
        rename_dict == [old_name \in present |-> mapping[old_name]]
    IN IF present = {}
       THEN t
       ELSE [t EXCEPT !.columns = [i \in 1..Len(t.columns) |->
                IF t.columns[i] \in present
                THEN rename_dict[t.columns[i]] ELSE t.columns[i]]]

\* ---------------------------------------------- required-column validator
\* _validate_required_columns with the answer inverted
validate_required_columns_inverted(t, required_columns) ==
    SelectSeq(required_columns, LAMBDA col : ~HasColumn(t, col)) # <<>>

\* _validate_required_columns: True iff no required column is missing
validate_required_columns(t, required_columns) ==
    LET missing == SelectSeq(required_columns, LAMBDA col : ~HasColumn(t, col))
    IN missing = <<>>

\* ------------------------------------------------- type coercion engine
\* pd.to_numeric(errors="coerce") of one value: text that reads as a number
\* gives the number, "inf" gives infinity, anything else is missing
to_numeric_value(x) ==
    CASE x.k \in {"numeral", "int64", "float64", "float_text"} -> Float64(x.v)
      [] x.k \in {"inf_text", "float64_inf"} -> Inf
      [] x.k \in {"missing", "junk", "date_text", "nan_text", "datetime64"} -> Missing

\* pd.to_numeric(series, errors="coerce"): int64 when every value is a whole
\* number, float64 when a value is missing or infinite
to_numeric(cells) ==
    LET parsed == [i \in 1..Len(cells) |-> to_numeric_value(cells[i])]
        whole == \A i \in 1..Len(cells) : parsed[i].k = "float64"
    IN [i \in 1..Len(cells) |-> IF whole THEN Int64(parsed[i].v) ELSE parsed[i]]

\* series.fillna(0)
fillna0(cells) ==
    [i \in 1..Len(cells) |-> IF isna(cells[i]) THEN Float64(0) ELSE cells[i]]

\* series.astype("int64") raises on a non-finite value
int64_raises(cells) == \E i \in 1..Len(cells) : cells[i].k \in {"missing", "float64_inf"}

\* series.astype("int64") of finite numbers
astype_int64(cells) == [i \in 1..Len(cells) |-> Int64(cells[i].v)]

\* series.astype("float64") of numbers
astype_float64(cells) ==
    [i \in 1..Len(cells) |->
        IF cells[i].k = "int64" THEN Float64(cells[i].v) ELSE cells[i]]

\* pd.to_numeric(df[col]) raises TypeError when df[col] is a frame, that is when
\* two columns are called col
to_numeric_raises(t, col) == Cardinality(Positions(t, col)) > 1

\* the try block of the numeric loop for one entry that fills a missing value
\* with 1 before the int cast
convert_numeric_fill_one(t, col, dtype) ==
    IF to_numeric_raises(t, col)
    THEN t
    ELSE LET parsed == Assign(t, col, to_numeric(Cells(t, col)))
             filled == [i \in 1..NRows(t) |->
                          IF isna(Cells(parsed, col)[i]) THEN Float64(1)
                          ELSE Cells(parsed, col)[i]]
         IN IF dtype = "int"
            THEN IF int64_raises(filled)
                 THEN parsed
                 ELSE Assign(parsed, col, astype_int64(filled))
            ELSE IF dtype = "float"
                 THEN Assign(parsed, col, astype_float64(Cells(parsed, col)))
                 ELSE parsed

\* the try block of the numeric loop for one entry (col, dtype): an exception in
\* to_numeric leaves the column as it was, one in the int cast leaves it as
\* to_numeric has already assigned it
convert_numeric(t, col, dtype) ==
    IF to_numeric_raises(t, col)
    THEN t
    ELSE LET parsed == Assign(t, col, to_numeric(Cells(t, col)))
             filled == fillna0(Cells(parsed, col))
         IN IF dtype = "int"
            THEN IF int64_raises(filled)
                 THEN parsed
                 ELSE Assign(parsed, col, astype_int64(filled))
            ELSE IF dtype = "float"
                 THEN Assign(parsed, col, astype_float64(Cells(parsed, col)))
                 ELSE parsed

\* str(value) of one value
to_str(x) ==
    CASE x.k = "missing" -> [k |-> "nan_text", v |-> 0]
      [] x.k = "int64" -> Numeral(x.v)
      [] x.k = "float64" -> [k |-> "float_text", v |-> x.v]
      [] x.k = "float64_inf" -> InfText
      [] x.k = "datetime64" -> DateText(x.v)
      [] OTHER -> x

\* the try block of the string loop for one column: df[col].astype(str)
convert_string(t, col) ==
    [t EXCEPT !.rows = [i \in 1..NRows(t) |->
        [t.rows[i] EXCEPT !.c = [p \in 1..Len(t.columns) |->
            IF t.columns[p] = col THEN to_str(t.rows[i].c[p]) ELSE t.rows[i].c[p]]]]]

\* pd.to_datetime(errors="coerce") of one value of a text or datetime column
to_datetime_value(x) ==
    CASE x.k \in {"date_text", "datetime64"} -> Datetime64(x.v)
      [] x.k \in {"missing", "junk", "nan_text"} -> Missing

\* the try block of the datetime loop for one column; the entry's parameters are
\* a DictConfig, not a dict, so format is None and errors is "coerce"; to_datetime
\* of a frame (two columns called col) raises ValueError
convert_datetime(t, col) ==
    IF Cardinality(Positions(t, col)) > 1
    THEN t
    ELSE Assign(t, col, [i \in 1..NRows(t) |-> to_datetime_value(Cells(t, col)[i])])

\* the numeric loop over the entries (col, dtype) of dtype_config.numeric
RECURSIVE numeric_loop(_, _)
numeric_loop(t, numeric_map) ==
    IF numeric_map = <<>>
    THEN t
    ELSE LET col == Head(numeric_map)[1]
             dtype == Head(numeric_map)[2]
         IN numeric_loop(IF HasColumn(t, col) THEN convert_numeric(t, col, dtype) ELSE t,
                         Tail(numeric_map))

RECURSIVE string_loop(_, _)
string_loop(t, string_cols) ==
    IF string_cols = <<>>
    THEN t
    ELSE string_loop(IF HasColumn(t, Head(string_cols))
                     THEN convert_string(t, Head(string_cols)) ELSE t,
                     Tail(string_cols))

RECURSIVE datetime_loop(_, _)
datetime_loop(t, datetime_cols) ==
    IF datetime_cols = <<>>
    THEN t
    ELSE datetime_loop(IF HasColumn(t, Head(datetime_cols))
                       THEN convert_datetime(t, Head(datetime_cols)) ELSE t,
                       Tail(datetime_cols))

\* _apply_dtype_conversion: numeric, then string, then datetime columns;
\* dtype_config is <<>> (None or empty) or <<[numeric, string, datetime]>>
apply_dtype_conversion(t, dtype_config) ==
    IF ~HasAttr(dtype_config)
    THEN t
    ELSE datetime_loop(string_loop(numeric_loop(t, Get(dtype_config).numeric),
                                   Get(dtype_config).string),
                       Get(dtype_config).datetime)

\* ------------------------------------------- row filter, column selector
\* df.dropna(subset=...) raises KeyError when a listed name is no column
dropna_raises(t, subset) == \E i \in 1..Len(subset) : ~HasColumn(t, subset[i])

\* a row has a missing value in a column called by one of the names
HasMissing(t, row, subset) ==
    \E p \in 1..Len(t.columns) :
        /\ \E i \in 1..Len(subset) : subset[i] = t.columns[p]
        /\ isna(row.c[p])

\* df.dropna(subset=...): the rows without a missing value in a listed column,
\* in their order and under their index labels
dropna(t, subset) ==
    [t EXCEPT !.rows = SelectSeq(t.rows, LAMBDA row : ~HasMissing(t, row, subset))]

\* the column positions df[names] takes: for each name in turn, every column
\* called by it
RECURSIVE positions_of(_, _)
positions_of(t, names) ==
    IF names = <<>>
    THEN <<>>
    ELSE SelectSeq([p \in 1..Len(t.columns) |-> p],
                   LAMBDA p : t.columns[p] = Head(names))
           \o positions_of(t, Tail(names))

\* df[names]
take_columns(t, names) ==
    LET ps == positions_of(t, names)
    IN [columns |-> [j \in 1..Len(ps) |-> t.columns[ps[j]]],
        rows    |-> [i \in 1..NRows(t) |->
                       [idx |-> t.rows[i].idx,
                        c   |-> [j \in 1..Len(ps) |-> t.rows[i].c[ps[j]]]]]]

\* ----------------------------------------- process_tournament of clean.py
\* a missing raw file or an empty table ends the partition
CleanLoad ==
    /\ clean_pc = "start"
    /\ IF ~HasAttr(raw)
       THEN clean_pc' = "done" /\ clean_df' = clean_df
       ELSE LET t == read_parquet(Get(raw))
            IN /\ clean_df' = t
               /\ clean_pc' = IF Empty(t) THEN "done" ELSE "mapping"
    /\ UNCHANGED <<clean_cfg, raw, feature_vars, run_vars, stale, disk, log_vars>>

\* step 1 left out
ApplyColumnMapping_skipped ==
    /\ clean_pc = "mapping"
    /\ clean_df' = clean_df
    /\ clean_pc' = "validate"
    /\ UNCHANGED <<clean_cfg, raw, feature_vars, run_vars, stale, disk, log_vars>>

\* step 1: the column mapping, when one is configured
ApplyColumnMapping ==
    /\ clean_pc = "mapping"
    /\ clean_df' = IF DOMAIN clean_cfg.column_mapping # {}
                   THEN apply_column_mapping(clean_df, clean_cfg.column_mapping)
                   ELSE clean_df
    /\ clean_pc' = "validate"
    /\ UNCHANGED <<clean_cfg, raw, feature_vars, run_vars, stale, disk, log_vars>>

\* step 2: a missing required column ends the partition
ValidateRequiredColumns ==
    /\ clean_pc = "validate"
    /\ clean_pc' = IF /\ clean_cfg.required_columns # <<>>
                      /\ ~validate_required_columns(clean_df, clean_cfg.required_columns)
                   THEN "done" ELSE "dtype"
    /\ UNCHANGED <<clean_cfg, raw, clean_df, feature_vars, run_vars, stale, disk,
                   log_vars>>

\* step 3: the type coercion
ApplyDtypeConversion ==
    /\ clean_pc = "dtype"
    /\ clean_df' = apply_dtype_conversion(clean_df, clean_cfg.dtype_mapping)
    /\ clean_pc' = "dropna"
    /\ UNCHANGED <<clean_cfg, raw, feature_vars, run_vars, stale, disk, log_vars>>

\* step 4 filtering on the values the table had before the type coercion
DropNa_on_uncoerced ==
    /\ clean_pc = "dropna"
    /\ IF clean_cfg.drop_na_columns = <<>>
       THEN clean_pc' = "select" /\ clean_df' = clean_df
       ELSE IF dropna_raises(clean_df, clean_cfg.drop_na_columns)
            THEN clean_pc' = "raised" /\ clean_df' = clean_df
            ELSE LET loaded == read_parquet(Get(raw))
                     uncoerced == IF DOMAIN clean_cfg.column_mapping # {}
                                  THEN apply_column_mapping(loaded, clean_cfg.column_mapping)
                                  ELSE loaded
                     kept == dropna(uncoerced, clean_cfg.drop_na_columns)
                 IN /\ clean_df' = [clean_df EXCEPT !.rows =
                          SelectSeq(clean_df.rows, LAMBDA row :
                              \E i \in 1..NRows(kept) : kept.rows[i].idx = row.idx)]
                    /\ clean_pc' = "select"
    /\ UNCHANGED <<clean_cfg, raw, feature_vars, run_vars, stale, disk, log_vars>>

\* step 4: the row filter; the KeyError of dropna is not caught
DropNa ==
    /\ clean_pc = "dropna"
    /\ IF clean_cfg.drop_na_columns = <<>>
       THEN clean_pc' = "select" /\ clean_df' = clean_df
       ELSE IF dropna_raises(clean_df, clean_cfg.drop_na_columns)
            THEN clean_pc' = "raised" /\ clean_df' = clean_df
            ELSE /\ clean_df' = dropna(clean_df, clean_cfg.drop_na_columns)
                 /\ clean_pc' = "select"
    /\ UNCHANGED <<clean_cfg, raw, feature_vars, run_vars, stale, disk, log_vars>>

\* step 5 going on with the whole table when no listed column exists
SelectColumns_whole_table ==
    /\ clean_pc = "select"
    /\ LET select_cols == clean_cfg.select_columns
           existing_cols == SelectSeq(select_cols, LAMBDA c : HasColumn(clean_df, c))
           selected == IF select_cols = <<>> \/ existing_cols = <<>> THEN clean_df
                       ELSE take_columns(clean_df, existing_cols)
       IN /\ clean_df' = selected
          /\ clean_pc' = IF Empty(selected) THEN "done" ELSE "write"
    /\ UNCHANGED <<clean_cfg, raw, feature_vars, run_vars, stale, disk, log_vars>>

\* step 5: the column selection, then the check for an empty table
SelectColumns ==
    /\ clean_pc = "select"
    /\ LET select_cols == clean_cfg.select_columns
           existing_cols == SelectSeq(select_cols, LAMBDA c : HasColumn(clean_df, c))
           selected == IF select_cols = <<>> THEN clean_df
                       ELSE take_columns(clean_df, existing_cols)
       IN IF select_cols # <<>> /\ existing_cols = <<>>
          THEN clean_pc' = "done" /\ clean_df' = clean_df
          ELSE /\ clean_df' = selected
               /\ clean_pc' = IF Empty(selected) THEN "done" ELSE "write"
    /\ UNCHANGED <<clean_cfg, raw, feature_vars, run_vars, stale, disk, log_vars>>

\* step 6: df.to_parquet(out_path, index=False)
WriteInterim ==
    /\ clean_pc = "write"
    /\ IF Writable(clean_df) /\ InterimFile \notin unwritable
       THEN /\ interim' = <<to_parquet(clean_df)>>
            /\ disk' = [disk EXCEPT ![InterimFile] = <<to_parquet(clean_df)>>]
            /\ clean_pc' = "done"
       ELSE clean_pc' = "raised" /\ interim' = interim /\ disk' = disk
    /\ UNCHANGED <<clean_cfg, raw, clean_df, cfg, pc, df, train_df, inference_df,
                   files, run_vars, stale, log_vars>>

\* ------------------------------------------------------- run of clean.py
\* process_tournament(tournament_dir, cfg) is entered for the partition name
CleanCallProcessTournament(name) ==
    /\ current' = <<name>>
    /\ started' = Append(started, name)
    /\ raw' = Get(root)[name]
    /\ clean_pc' = "start"
    /\ clean_df' = NoTable
    /\ interim' = <<>>
    /\ disk' = stale

\* run(cfg) up to the first call: a missing raw root raises RuntimeError
CleanRun ==
    /\ run_pc = "start"
    /\ clean_pc = "idle"
    /\ IF ~HasAttr(root)
       THEN /\ run_pc' = "raised"
            /\ UNCHANGED <<queue, current, started, raw, clean_pc, clean_df, interim,
                           disk>>
       ELSE LET tournaments == sorted(DOMAIN Get(root))
            IN IF tournaments = <<>>
               THEN /\ run_pc' = "done"
                    /\ UNCHANGED <<queue, current, started, raw, clean_pc, clean_df,
                                   interim, disk>>
               ELSE /\ run_pc' = "loop"
                    /\ queue' = Tail(tournaments)
                    /\ CleanCallProcessTournament(Head(tournaments))
    /\ UNCHANGED <<clean_cfg, cfg, pc, df, train_df, inference_df, files, root,
                   unwritable, finished, stale, log_vars>>

\* process_tournament returned: the loop takes the next partition
CleanNextTournament ==
    /\ run_pc = "loop"
    /\ clean_pc = "done"
    /\ finished' = Append(finished, Get(current))
    /\ IF queue = <<>>
       THEN /\ run_pc' = "done"
            /\ UNCHANGED <<queue, current, started, raw, clean_pc, clean_df, interim,
                           disk>>
       ELSE /\ run_pc' = "loop"
            /\ queue' = Tail(queue)
            /\ CleanCallProcessTournament(Head(queue))
    /\ UNCHANGED <<clean_cfg, cfg, pc, df, train_df, inference_df, files, root,
                   unwritable, stale, log_vars>>

\* process_tournament raised: nothing in run() catches
CleanEscape ==
    /\ run_pc = "loop"
    /\ clean_pc = "raised"
    /\ run_pc' = "raised"
    /\ UNCHANGED <<clean_vars, feature_vars, root, unwritable, queue, current,
                   started, finished, stale, disk, log_vars>>

\* ------------------------------------------------- inputs of the clean stage
Home == "home"
Away == "away"
Kickoff == "kickoff"

MkCleanCfg(mapping, required, dtype, drop_na, select) ==
    [column_mapping |-> mapping, required_columns |-> required,
     dtype_mapping |-> dtype, drop_na_columns |-> drop_na, select_columns |-> select]

MkDtype(numeric, string, datetime) ==
    [numeric |-> numeric, string |-> string, datetime |-> datetime]

\* no column_mapping section, or an empty one
NoMapping == [old_name \in {} |-> ""]

\* the stored raw file with the given columns and rows of cells
RawTable(columns, rows) == [columns |-> columns, rows |-> rows]

\* the sequences of length 0..n over a pool
SeqsUpTo(pool, n) == UNION {[1..k -> pool] : k \in 0..n}

\* the feature-build stage while the clean stage runs: idle
FeatureIdle ==
    /\ cfg = <<>>
    /\ interim = <<>>
    /\ pc = "off"
    /\ df = NoTable
    /\ train_df = NoTable
    /\ inference_df = NoTable
    /\ files = NoFiles

\* raw layouts of one to three distinct columns over home, away, home_points
MappingLayouts ==
    {q \in UNION {[1..k -> {Home, Away, HomePoints}] : k \in 1..3} :
        \A i, j \in 1..Len(q) : q[i] = q[j] => i = j}

\* every mapping of a subset of home, away, home_points to home_points,
\* away_points, home: plain, chained, swapped and colliding renames
Mappings ==
    UNION {[K -> {HomePoints, AwayPoints, Home}] : K \in SUBSET {Home, Away, HomePoints}}

\* every mapping over every layout, with and without a required column
InitMappingCases ==
    /\ \E columns \in MappingLayouts :
          root = <<OnePartition(<<RawTable(columns,
                       <<[p \in 1..Len(columns) |-> Numeral(p)]>>)>>)>>
    /\ \E mapping \in Mappings :
       \E required \in {<<>>, <<HomePoints>>} :
          clean_cfg = MkCleanCfg(mapping, required,
                                 <<MkDtype(<<<<HomePoints, "int">>>>, <<>>, <<>>)>>,
                                 <<>>, <<>>)
    /\ unwritable = {}
    /\ FeatureIdle /\ RunLocals
    /\ raw = <<>> /\ clean_pc = "idle" /\ clean_df = NoTable

\* the raw values of a numeric column: ingest stores every value as text
NumericPool == {Missing, Junk, Numeral(1), InfText}

\* every numeric target type over every pair of text columns, with and without a
\* row filter on home_points behind it
InitNumericCases ==
    /\ \E rows \in SeqsUpTo({<<h, a>> : h \in NumericPool, a \in {Numeral(2), Missing}},
                            MaxRows) :
          root = <<OnePartition(<<RawTable(<<HomePoints, AwayPoints>>, rows)>>)>>
    /\ \E numeric \in { <<<<HomePoints, "int">>, <<AwayPoints, "int">>>>,
                        <<<<HomePoints, "float">>, <<AwayPoints, "float">>>>,
                        <<<<HomePoints, "int">>, <<AwayPoints, "float">>>> } :
       \E drop_na \in {<<>>, <<HomePoints>>} :
          clean_cfg = MkCleanCfg(NoMapping, <<HomePoints>>,
                                 <<MkDtype(numeric, <<>>, <<>>)>>, drop_na, <<>>)
    /\ unwritable = {}
    /\ FeatureIdle /\ RunLocals
    /\ raw = <<>> /\ clean_pc = "idle" /\ clean_df = NoTable

\* string and datetime coercion, with and without a row filter behind it
InitTextCases ==
    /\ \E rows \in SeqsUpTo({<<s, k>> : s \in {Missing, Junk},
                                        k \in {Missing, Junk, DateText(1)}}, MaxRows) :
          root = <<OnePartition(<<RawTable(<<Status, Kickoff>>, rows)>>)>>
    /\ \E drop_na \in {<<>>, <<Status>>, <<Kickoff>>} :
          clean_cfg = MkCleanCfg(NoMapping, <<>>,
                                 <<MkDtype(<<>>, <<Status>>, <<Kickoff>>)>>, drop_na, <<>>)
    /\ unwritable = {}
    /\ FeatureIdle /\ RunLocals
    /\ raw = <<>> /\ clean_pc = "idle" /\ clean_df = NoTable

\* every required list, filter list and selection over tables with missing
\* values, with and without the away_points column
InitFilterCases ==
    /\ \/ \E rows \in SeqsUpTo({<<h, a>> : h \in {Missing, Numeral(1)},
                                           a \in {Missing, Numeral(0)}}, MaxRows) :
             root = <<OnePartition(<<RawTable(<<HomePoints, AwayPoints>>, rows)>>)>>
       \/ \E rows \in SeqsUpTo({<<h>> : h \in {Missing, Numeral(1)}}, MaxRows) :
             root = <<OnePartition(<<RawTable(<<HomePoints>>, rows)>>)>>
    /\ \E required \in {<<>>, <<HomePoints, AwayPoints>>} :
       \E dtype \in {<<>>, <<MkDtype(<<<<AwayPoints, "int">>>>, <<>>, <<>>)>>} :
       \E drop_na \in {<<>>, <<HomePoints>>, <<HomePoints, AwayPoints>>} :
       \E select \in {<<>>, <<AwayPoints, HomePoints>>, <<"odds">>} :
          clean_cfg = MkCleanCfg(NoMapping, required, dtype, drop_na, select)
    /\ unwritable = {}
    /\ FeatureIdle /\ RunLocals
    /\ raw = <<>> /\ clean_pc = "idle" /\ clean_df = NoTable

\* the raw files of the partitions of a run over several partitions: absent,
\* empty, complete, without the required home_points, without the filter
\* column away_points
CleanRunFiles ==
    { <<>>,
      <<RawTable(<<HomePoints, AwayPoints>>, <<>>)>>,
      <<RawTable(<<HomePoints, AwayPoints>>, <<<<Numeral(1), Numeral(0)>>>>)>>,
      <<RawTable(<<AwayPoints>>, <<<<Numeral(0)>>>>)>>,
      <<RawTable(<<HomePoints>>, <<<<Numeral(1)>>>>)>> }

CleanRoots ==
    {<<>>} \cup
    {<<d>> : d \in UNION {[S -> CleanRunFiles] :
                             S \in SUBSET {TournamentNames[i] :
                                              i \in 1..Len(TournamentNames)}}}

\* run() of the clean stage over every root
InitCleanRunCases ==
    /\ root \in CleanRoots
    /\ clean_cfg = MkCleanCfg(NoMapping, <<HomePoints>>, <<>>, <<AwayPoints>>, <<>>)
    /\ unwritable \in {{}, {InterimFile}}
    /\ FeatureIdle /\ RunLocals
    /\ raw = <<>> /\ clean_pc = "idle" /\ clean_df = NoTable

\* the interim file an earlier run of the clean stage left for the partition
OldInterimFile == [columns |-> <<"odds">>, rows |-> << <<Float64(9)>> >>]
OldInterimDir ==
    [f \in {TrainFile, InferenceFile, AllFile, InterimFile} |->
        IF f = InterimFile THEN <<OldInterimFile>> ELSE <<>>]

\* a second run of the clean stage over a partition that holds the interim file
\* of an earlier run
InitCleanStaleCases ==
    /\ \E file \in CleanRunFiles : root = <<OnePartition(file)>>
    /\ clean_cfg = MkCleanCfg(NoMapping, <<HomePoints>>, <<>>, <<AwayPoints>>, <<>>)
    /\ unwritable = {}
    /\ FeatureIdle
    /\ RunStart /\ LogIdle
    /\ stale = OldInterimDir
    /\ disk = stale
    /\ raw = <<>> /\ clean_pc = "idle" /\ clean_df = NoTable

InitClean ==
    \/ InitMappingCases
    \/ InitNumericCases
    \/ InitTextCases
    \/ InitFilterCases
    \/ InitCleanRunCases
    \/ InitCleanStaleCases

NextClean ==
    \/ CleanRun
    \/ CleanNextTournament
    \/ CleanEscape
    \/ CleanLoad
    \/ ApplyColumnMapping
    \/ ValidateRequiredColumns
    \/ ApplyDtypeConversion
    \/ DropNa
    \/ SelectColumns
    \/ WriteInterim

SpecClean == InitClean /\ [][NextClean]_vars

\* ======================================================== utils/logging.py
\* The root logger of the logging library carries a sequence of handlers and a
\* level; _LOG_CONFIGURED is the module's flag.  A handler is "stdout" (the
\* StreamHandler on sys.stdout) or "file" (the FileHandler on
\* log_dir/sports_forecast.log).  log_dir is <<>> (None) or <<directory>>.

\* the level arguments of the inputs: a level name, one in lower case, a word
\* that names nothing in the logging library, and the name of its BASIC_FORMAT
LevelArgs == {"INFO", "debug", "verbose", "basic_format"}

\* level.upper()
upper(level) ==
    CASE level = "INFO" -> "INFO"
      [] level = "debug" -> "DEBUG"
      [] level = "verbose" -> "VERBOSE"
      [] level = "basic_format" -> "BASIC_FORMAT"

\* getattr(logging, name, logging.INFO): the level numbers are ints, BASIC_FORMAT
\* is a format string, a name the library lacks gives INFO
logging_attr(name) ==
    CASE name = "DEBUG" -> [type |-> "int", v |-> 10]
      [] name = "INFO" -> [type |-> "int", v |-> 20]
      [] name = "BASIC_FORMAT" -> [type |-> "str", v |-> 0]
      [] OTHER -> [type |-> "int", v |-> 20]

\* Logger.setLevel raises ValueError for a string that is no level name
setLevel_raises(value) == value.type = "str"

\* the directories log_dir.mkdir(parents=True, exist_ok=True) cannot create
LockedDirs == {"locked"}
LogDirs == {<<>>, <<"logs">>, <<"locked">>}

\* the handlers list of configure_logging
new_handlers(log_dir, log_to_stdout) ==
    (IF log_to_stdout THEN <<"stdout">> ELSE <<>>)
      \o (IF HasAttr(log_dir) THEN <<"file">> ELSE <<>>)

\* configure_logging(level, log_dir, log_to_stdout): returns at once when the
\* flag is set; otherwise mkdir may raise OSError before any handler exists, the
\* handlers are added to the root logger, setLevel may raise ValueError, and
\* only then the flag is set
configure_logging(level, log_dir, log_to_stdout) ==
    /\ calls' = calls + 1
    /\ IF LOG_CONFIGURED
       THEN UNCHANGED <<LOG_CONFIGURED, root_handlers, root_level>>
       ELSE IF HasAttr(log_dir) /\ Get(log_dir) \in LockedDirs
            THEN UNCHANGED <<LOG_CONFIGURED, root_handlers, root_level>>
            ELSE /\ root_handlers' = root_handlers \o new_handlers(log_dir, log_to_stdout)
                 /\ IF setLevel_raises(logging_attr(upper(level)))
                    THEN UNCHANGED <<LOG_CONFIGURED, root_level>>
                    ELSE /\ root_level' = logging_attr(upper(level)).v
                         /\ LOG_CONFIGURED' = TRUE

\* an explicit call of configure_logging from an entry point
ConfigureLogging ==
    /\ calls < MaxCalls
    /\ \E level \in LevelArgs, log_dir \in LogDirs, log_to_stdout \in BOOLEAN :
          configure_logging(level, log_dir, log_to_stdout)
    /\ UNCHANGED <<feature_vars, run_vars, clean_vars, stale, disk>>

\* get_logger(name): configure_logging() with its defaults when the flag is unset
GetLogger ==
    /\ calls < MaxCalls
    /\ ~LOG_CONFIGURED
    /\ configure_logging("INFO", <<>>, TRUE)
    /\ UNCHANGED <<feature_vars, run_vars, clean_vars, stale, disk>>

\* the logging module alone: both stages at rest
InitLogging ==
    /\ LogIdle
    /\ FeatureIdle
    /\ CleanIdle
    /\ RunStart
    /\ root = <<>>
    /\ unwritable = {}
    /\ stale = EmptyDir
    /\ disk = EmptyDir

NextLogging == ConfigureLogging \/ GetLogger

SpecLogging == InitLogging /\ [][NextLogging]_vars

\* C21: once configure_logging has been executed, explicitly or by get_logger, no
\* later call changes the handlers or the level of the root logger, so no
\* handler is installed a second time
C21_ConfigureOnce ==
    [][calls >= 1 => (root_handlers' = root_handlers /\ root_level' = root_level)]_vars

\* ============================================== both stages of the pipeline
\* a run of either stage over its inputs
InitPipeline == Init \/ InitClean

NextPipeline == Next \/ NextClean

SpecPipeline == InitPipeline /\ [][NextPipeline]_vars

\* ----------------------------------------------- feature-build column selector
\* the names the selector is asked for: meta columns, then feature columns, then
\* (training output only) the configured target name
Requested(for_train) ==
    cfg.features.meta_columns \o cfg.features.final_columns
      \o (IF for_train /\ HasAttr(cfg.features.target)
          THEN <<Get(cfg.features.target).name>> ELSE <<>>)

\* the requested names that are columns of the table, in request order
Existing(t, for_train) == SelectSeq(Requested(for_train), LAMBDA n : HasColumn(t, n))

\* the rows of out are the rows of in, cut down to the columns of out
SameRows(in, out) ==
    /\ NRows(out) = NRows(in)
    /\ \A i \in 1..NRows(in) :
          /\ out.rows[i].idx = in.rows[i].idx
          /\ \A n \in ColSet(out) : out.rows[i].c[n] = in.rows[i].c[n]

\* C16: when no requested name is a column of the table, the selector returns the
\* table it was given, columns and rows unchanged, for the training and for the
\* inference output alike
C16_SelectorDegrades ==
    [][ /\ (pc = "select_train" /\ Existing(train_df, TRUE) = <<>>)
             => train_df' = train_df
        /\ (pc = "select_inference" /\ Existing(inference_df, FALSE) = <<>>)
             => inference_df' = inference_df ]_vars

\* both selections have run on non-empty tables that hold no requested column,
\* and both tables still have their columns
C16_Witness ==
    /\ pc = "write_train"
    /\ Existing(train_df, TRUE) = <<>>
    /\ Existing(inference_df, FALSE) = <<>>
    /\ NRows(train_df) > 0 /\ NRows(inference_df) > 0
    /\ HasColumn(train_df, PointsDiff) /\ HasColumn(inference_df, PointsDiff)

\* C17: when a requested name exists, the selector outputs exactly the requested
\* names that are columns of the table, in the order meta, feature, target (the
\* target only for the training output), over unchanged rows
C17_SelectorExact ==
    [][ /\ (pc = "select_train" /\ Existing(train_df, TRUE) # <<>>)
             => /\ train_df'.columns = Existing(train_df, TRUE)
                /\ SameRows(train_df, train_df')
        /\ (pc = "select_inference" /\ Existing(inference_df, FALSE) # <<>>)
             => /\ inference_df'.columns = Existing(inference_df, FALSE)
                /\ SameRows(inference_df, inference_df') ]_vars

\* both selections have run: the training output is the meta column, the
\* features and the target, the inference output the same without the target,
\* and the table before the selection had more columns
C17_Witness ==
    /\ pc = "write_train"
    /\ train_df.columns = <<MatchId>> \o FinalColumns \o <<Target>>
    /\ inference_df.columns = <<MatchId>> \o FinalColumns
    /\ NRows(train_df) > 0 /\ NRows(inference_df) > 0
    /\ HasColumn(df, HomePoints)

\* ------------------------------------------------------------------- run()
\* the partition directories under the input root
Partitions == IF HasAttr(root) THEN DOMAIN Get(root) ELSE {}
RunEnded == run_pc \in {"done", "raised"}
Ascending(q) == \A i, j \in 1..Len(q) : i < j => Rank(q[i]) < Rank(q[j])
Names(q) == {q[i] : i \in 1..Len(q)}

\* C18: with the input root present no exception leaves run(), and when run()
\* has ended every partition under the root has been processed, whatever
\* happened to the partitions before it
C18_FailureNeverStopsRun ==
    /\ run_pc = "raised" => ~HasAttr(root)
    /\ (RunEnded /\ HasAttr(root)) => Names(started) = Partitions

\* C19: partitions are started in ascending name order, each at most once and
\* only after every earlier one has returned, and when run() has ended on an
\* existing root each partition has been processed exactly once
C19_AscendingExactlyOnce ==
    /\ Ascending(started)
    /\ Names(started) \subseteq Partitions
    /\ \/ finished = started
       \/ started # <<>> /\ finished = SubSeq(started, 1, Len(started) - 1)
    /\ (RunEnded /\ HasAttr(root)) => Names(started) = Partitions

\* C20: a partition's directory holds a file of this run only once every
\* transform step of the partition has completed, and none when the processing
\* of the partition has failed
C20_NoPartialOutput ==
    /\ files # NoFiles => pc \in {"write_inference", "write_all", "done", "raised"}
    /\ pc = "raised" => files = NoFiles

\* ------------------------------------------------------------ clean stage
\* the column mapper has just run with a configured mapping
AfterMapping == clean_pc = "validate" /\ DOMAIN clean_cfg.column_mapping # {}

\* no new name of the mapping is an old name that maps to a different name
NoChain(mapping) ==
    \A old_name \in DOMAIN mapping :
        mapping[old_name] \in DOMAIN mapping => mapping[mapping[old_name]] = mapping[old_name]

\* C11 as stated: for every table and every mapping, applying the column mapper
\* to the table it has produced gives that table again
C11_MappingIdempotent ==
    AfterMapping => apply_column_mapping(clean_df, clean_cfg.column_mapping) = clean_df

\* C11 as amended: for every table and every mapping none of whose new names is an
\* old name mapped elsewhere, applying the column mapper to the table it has
\* produced gives that table again
C11_MappingIdempotentWithoutChain ==
    (AfterMapping /\ NoChain(clean_cfg.column_mapping))
        => apply_column_mapping(clean_df, clean_cfg.column_mapping) = clean_df

\* a chain-free mapping has renamed a column of the raw table and kept another
C11_Witness ==
    /\ AfterMapping
    /\ NoChain(clean_cfg.column_mapping)
    /\ clean_df.columns # Get(raw).columns
    /\ \E i \in 1..Len(clean_df.columns) : clean_df.columns[i] = Get(raw).columns[i]
    /\ clean_df.rows = read_parquet(Get(raw)).rows

\* the table the type coercion started from: the raw table after the mapping
BeforeCoercion ==
    IF DOMAIN clean_cfg.column_mapping # {}
    THEN apply_column_mapping(read_parquet(Get(raw)), clean_cfg.column_mapping)
    ELSE read_parquet(Get(raw))

\* the type coercion has just run
AfterCoercion == clean_pc = "dropna" /\ HasAttr(clean_cfg.dtype_mapping)

NumericEntries ==
    IF HasAttr(clean_cfg.dtype_mapping)
    THEN {Get(clean_cfg.dtype_mapping).numeric[i] :
            i \in 1..Len(Get(clean_cfg.dtype_mapping).numeric)}
    ELSE {}

\* a raw value reads as a number
Parseable(x) == x.k \in {"numeral", "inf_text"}

\* the conversion of the entry's column raises: the name is carried by two
\* columns, or an infinite value meets the int cast
CoercionRaises(entry) ==
    \/ Cardinality(Positions(BeforeCoercion, entry[1])) > 1
    \/ /\ entry[2] = "int"
       /\ \E i \in 1..NRows(BeforeCoercion) :
             Cells(BeforeCoercion, entry[1])[i].k = "inf_text"

\* C12: after a numeric column has been converted without an exception, an int
\* column has no missing value (0 where the input was missing or unparseable,
\* the input's integer where it was parseable), and a float column is missing
\* exactly where the input was missing or unparseable
C12_NumericCoercion ==
    AfterCoercion =>
      \A entry \in NumericEntries :
        (HasColumn(BeforeCoercion, entry[1]) /\ ~CoercionRaises(entry)) =>
          \A i \in 1..NRows(clean_df) :
            LET before == Cells(BeforeCoercion, entry[1])[i]
                after  == Cells(clean_df, entry[1])[i]
            IN /\ entry[2] = "int" =>
                    /\ ~isna(after)
                    /\ after = IF Parseable(before) THEN Int64(before.v) ELSE Int64(0)
               /\ entry[2] = "float" => (isna(after) <=> ~Parseable(before))

\* an int column converted from a missing, an unparseable and a parseable value
\* next to a float column converted from a missing and a parseable one
C12_Witness ==
    /\ AfterCoercion
    /\ <<HomePoints, "int">> \in NumericEntries
    /\ <<AwayPoints, "float">> \in NumericEntries
    /\ ~CoercionRaises(<<HomePoints, "int">>)
    /\ {Cells(BeforeCoercion, HomePoints)[i] : i \in 1..NRows(clean_df)}
         = {Missing, Junk, Numeral(1)}
    /\ {Cells(BeforeCoercion, AwayPoints)[i] : i \in 1..NRows(clean_df)}
         = {Missing, Numeral(2)}
    /\ {Cells(clean_df, HomePoints)[i] : i \in 1..NRows(clean_df)} = {Int64(0), Int64(1)}
    /\ {Cells(clean_df, AwayPoints)[i] : i \in 1..NRows(clean_df)} = {Missing, Float64(2)}

\* the cells of every column called name are the same in both tables
SameColumn(a, b, name) ==
    \A p \in Positions(a, name) :
        \A i \in 1..NRows(a) : b.rows[i].c[p] = a.rows[i].c[p]

\* C13: after the coercion step, a numeric column whose conversion raised is
\* exactly as it was before the coercion started, and every other configured
\* numeric column has still been converted to its target type
C13_FailedColumnUntouched ==
    AfterCoercion =>
      \A entry \in NumericEntries :
        HasColumn(BeforeCoercion, entry[1]) =>
          IF CoercionRaises(entry)
          THEN SameColumn(BeforeCoercion, clean_df, entry[1])
          ELSE \A i \in 1..NRows(clean_df) :
                 Cells(clean_df, entry[1])[i].k
                     \in (IF entry[2] = "int" THEN {"int64"}
                          ELSE {"float64", "float64_inf", "missing"})

\* every column listed in subset is non-missing in the row
RowComplete(t, row, subset) ==
    \A i \in 1..Len(subset) : \A p \in Positions(t, subset[i]) : ~isna(row.c[p])

\* C14: with a non-empty list the row filter returns the rows in which every
\* listed column is non-missing and no other row, over the same columns; with
\* an empty list it returns the table unchanged
C14_RowFilter ==
    [][ clean_pc = "dropna" =>
          IF clean_cfg.drop_na_columns = <<>>
          THEN clean_df' = clean_df
          ELSE /\ clean_pc' = "select"
               /\ clean_df'.columns = clean_df.columns
               /\ clean_df'.rows =
                    SelectSeq(clean_df.rows, LAMBDA row :
                        RowComplete(clean_df, row, clean_cfg.drop_na_columns))
               /\ NRows(clean_df') <= NRows(clean_df) ]_vars

\* a required column is absent from the table
MissingRequired(t) ==
    \E i \in 1..Len(clean_cfg.required_columns) :
        ~HasColumn(t, clean_cfg.required_columns[i])

\* C15: when a required column is absent after the mapping the partition ends
\* at the validator with its table as the mapping left it and without an
\* interim file, and nothing touches either until the next partition starts;
\* when every required column is present the type coercion is next
C15_ValidatorGate ==
    [][ /\ clean_pc = "validate" =>
             IF MissingRequired(clean_df)
             THEN clean_pc' = "done" /\ clean_df' = clean_df /\ interim' = <<>>
             ELSE clean_pc' = "dtype"
        /\ clean_pc = "done" =>
             \/ clean_pc' = "start"
             \/ clean_pc' = "done" /\ clean_df' = clean_df /\ interim' = interim ]_vars

\* the raw file had the required column, the mapping renamed it away, and the
\* partition has ended unconverted and without an interim file, the run over
CleanSkippedAtValidator ==
    /\ clean_pc = "done"
    /\ HasAttr(raw)
    /\ ~Empty(clean_df)
    /\ MissingRequired(clean_df)

C15_Witness ==
    /\ CleanSkippedAtValidator
    /\ run_pc = "done"
    /\ ~MissingRequired(read_parquet(Get(raw)))
    /\ clean_df = BeforeCoercion
    /\ interim = <<>>

\* --------------------------------------------------- order of the clean steps
\* the columns the dtype section converts to float64 or to datetime64
FloatColumns == {entry[1] : entry \in {e \in NumericEntries : e[2] = "float"}}

DatetimeColumns ==
    IF HasAttr(clean_cfg.dtype_mapping)
    THEN {Get(clean_cfg.dtype_mapping).datetime[i] :
            i \in 1..Len(Get(clean_cfg.dtype_mapping).datetime)}
    ELSE {}

FilterColumns ==
    {clean_cfg.drop_na_columns[i] : i \in 1..Len(clean_cfg.drop_na_columns)}

\* a raw value that is present and that the coercion of the column's type turns
\* into a missing value
TurnedMissing(col, x) ==
    \/ col \in FloatColumns /\ x.k \notin {"missing", "numeral", "inf_text"}
    \/ col \in DatetimeColumns /\ x.k \notin {"missing", "date_text"}

\* the steps of process_tournament follow one another in this order
StepOrder ==
    /\ clean_pc = "start" => clean_pc' \in {"start", "mapping", "done"}
    /\ clean_pc = "mapping" => clean_pc' \in {"mapping", "validate"}
    /\ clean_pc = "validate" => clean_pc' \in {"validate", "dtype", "done"}
    /\ clean_pc = "dtype" => clean_pc' \in {"dtype", "dropna"}
    /\ clean_pc = "dropna" => clean_pc' \in {"dropna", "select", "raised"}
    /\ clean_pc = "select" => clean_pc' \in {"select", "write", "done"}
    /\ clean_pc = "write" => clean_pc' \in {"write", "done", "raised"}

\* C22: the clean steps run in the order mapping, validation, coercion, filter,
\* selection, write; the filter sees the coerced table, so a row whose present
\* raw value became missing in a float or datetime column of the filter list
\* is not in the table the filter returns
C22_CoercionBeforeFilter ==
    [][ /\ StepOrder
        /\ (clean_pc = "dropna" /\ clean_pc' = "select") =>
              \A col \in FilterColumns \cap (FloatColumns \cup DatetimeColumns) :
                Cardinality(Positions(BeforeCoercion, col)) = 1 =>
                  \A i \in 1..NRows(BeforeCoercion) :
                    TurnedMissing(col, Cells(BeforeCoercion, col)[i]) =>
                      \A j \in 1..NRows(clean_df') :
                        clean_df'.rows[j].idx # BeforeCoercion.rows[i].idx ]_vars

\* the filter has just dropped the one row whose home_points text did not read
\* as a float and kept the row whose text did
C22_Witness ==
    /\ clean_pc = "select"
    /\ HomePoints \in FilterColumns \cap FloatColumns
    /\ NRows(BeforeCoercion) = 2
    /\ Cells(BeforeCoercion, HomePoints) = <<Junk, Numeral(1)>>
    /\ NRows(clean_df) = 1
    /\ clean_df.rows[1].idx = 1
    /\ Cells(clean_df, HomePoints) = <<Float64(1)>>

\* ---------------------------------------- int and string columns in the filter
IntColumns == {entry[1] : entry \in {e \in NumericEntries : e[2] = "int"}}

StringColumns ==
    IF HasAttr(clean_cfg.dtype_mapping)
    THEN {Get(clean_cfg.dtype_mapping).string[i] :
            i \in 1..Len(Get(clean_cfg.dtype_mapping).string)}
    ELSE {}

\* C29: a row the filter drops has a missing value in a listed column that is
\* neither int-typed nor string-typed: no row is dropped on account of an
\* int-typed or string-typed column alone
C29_IntAndStringNeverDrop ==
    [][ (clean_pc = "dropna" /\ clean_pc' = "select") =>
          \A i \in 1..NRows(clean_df) :
            (\A j \in 1..NRows(clean_df') : clean_df'.rows[j].idx # clean_df.rows[i].idx) =>
              \E col \in FilterColumns \ (IntColumns \cup StringColumns) :
                \E p \in Positions(clean_df, col) : isna(clean_df.rows[i].c[p]) ]_vars

\* ------------------------------------------- order of the feature-build steps
\* the table as process_tournament loaded it
Loaded == read_parquet(Get(interim))

BasicEntries ==
    IF HasAttr(cfg.features.basic)
    THEN {Get(e) : e \in {x \in {Get(cfg.features.basic).diff,
                                  Get(cfg.features.basic).total} : HasAttr(x)}}
    ELSE {}

LagEntries ==
    IF HasAttr(cfg.features.lag)
    THEN {Get(e) : e \in {x \in {Get(cfg.features.lag).diff,
                                  Get(cfg.features.lag).total} : HasAttr(x)}}
    ELSE {}

\* the difference entry, when configured, finds both of its columns in the file
DiffComputable ==
    /\ HasAttr(cfg.features.basic)
    /\ HasAttr(Get(cfg.features.basic).diff)
    /\ HasColumn(Loaded, Get(Get(cfg.features.basic).diff).home_column)
    /\ HasColumn(Loaded, Get(Get(cfg.features.basic).diff).away_column)

\* a column is in the file, or is the output of the computable difference entry
AvailableToTotal(col) ==
    \/ HasColumn(Loaded, col)
    \/ DiffComputable /\ col = Get(Get(cfg.features.basic).diff).name

\* the two source columns of a basic entry exist when the entry is reached
SourcesExist(b) ==
    IF HasAttr(Get(cfg.features.basic).diff) /\ b = Get(Get(cfg.features.basic).diff)
    THEN DiffComputable
    ELSE AvailableToTotal(b.home_column) /\ AvailableToTotal(b.away_column)

FeatureStepOrder ==
    /\ pc = "basic" => pc' \in {"basic", "lag"}
    /\ pc = "lag" => pc' \in {"lag", "split"}
    /\ pc = "split" => pc' \in {"split", "target"}

\* C23: basic features, then lag features, then the split; once the lag step
\* has run, every lag entry whose source is the output of a basic entry with
\* both of its source columns in place is in the table, shifted from that output
C23_BasicBeforeLag ==
    [][ /\ FeatureStepOrder
        /\ pc' = "split" =>
              \A e \in LagEntries : \A b \in BasicEntries :
                (b.name = e.source_column /\ SourcesExist(b)) =>
                   /\ HasColumn(df', b.name)
                   /\ HasColumn(df', e.new_column)
                   /\ ~HasColumn(Loaded, e.new_column)
                   /\ Column(df', e.new_column)
                        = Shift(Column(df', e.source_column), e.periods) ]_vars

\* the lag of a sum that was itself computed from the difference of the same run
C23_Witness ==
    /\ pc = "split"
    /\ ChainedTotalCfg \in BasicEntries /\ DiffCfg \in BasicEntries
    /\ NRows(df) = 2
    /\ Column(df, PointsDiff) = <<Val(1), Val(-1)>>
    /\ Column(df, PointsTotal) = <<Val(1), Val(0)>>
    /\ Column(df, PointsTotalLag) = <<NaN, Val(1)>>
    /\ Column(df, PointsDiffLag) = <<NaN, Val(1)>>

\* ------------------------------------------------ frame of a feature entry
\* the entry is the difference entry of the basic section
IsDiffEntry(b) ==
    HasAttr(Get(cfg.features.basic).diff) /\ b = Get(Get(cfg.features.basic).diff)

\* home minus away for the difference entry, home plus away for the sum entry
BasicValue(b, home, away) == IF IsDiffEntry(b) THEN Sub(home, away) ELSE Add(home, away)

\* the step from before to after added exactly the columns called outputs and
\* left every other column, every row and the row order as they were
OnlyAdded(before, after, outputs) ==
    /\ Labels(after) = Labels(before)
    /\ ColSet(after) = ColSet(before) \cup outputs
    /\ \A n \in ColSet(before) \ outputs : Column(after, n) = Column(before, n)

\* C24: a basic or lag entry with an absent source column adds no column and
\* changes nothing, raises nothing, and leaves the other entries to be computed;
\* an entry with its sources in place writes home minus away (difference) or home
\* plus away (sum) row by row into its output column and changes nothing else
C24_EntryFrame ==
    [][ /\ pc = "basic" =>
              LET computed == {b \in BasicEntries : SourcesExist(b)}
              IN /\ pc' = "lag"
                 /\ OnlyAdded(df, df', {b.name : b \in computed})
                 /\ \A b \in computed :
                       \A i \in 1..NRows(df) :
                         df'.rows[i].c[b.name] =
                            BasicValue(b, df'.rows[i].c[b.home_column],
                                          df'.rows[i].c[b.away_column])
        /\ pc = "lag" =>
              LET computed == {e \in LagEntries : HasColumn(df, e.source_column)}
              IN /\ pc' = "split"
                 /\ OnlyAdded(df, df', {e.new_column : e \in computed})
                 /\ \A e \in computed :
                       Column(df', e.new_column)
                          = Shift(Column(df, e.source_column), e.periods) ]_vars

\* the difference and its lag were skipped for want of the away column, the sum
\* and its lag were computed
C24_Witness ==
    /\ pc = "split"
    /\ OddsDiffCfg \in BasicEntries /\ TotalCfg \in BasicEntries
    /\ NRows(df) = 2
    /\ ColSet(df) = ColSet(Loaded) \cup {PointsTotal, PointsTotalLag}
    /\ Column(df, HomePoints) = <<Val(1), Val(0)>>
    /\ Column(df, AwayPoints) = <<Val(0), Val(1)>>
    /\ Column(df, PointsTotal) = <<Val(1), Val(1)>>
    /\ Column(df, PointsTotalLag) = <<NaN, Val(1)>>

\* ------------------------------------------------- the target step skipped
\* the target spec is absent, or one of its two columns is not in the training
\* table (the split hands the columns of the unsplit table on to it)
TargetSkipped ==
    \/ ~HasTarget
    \/ ~HasColumn(df, Get(cfg.features.target).home_column)
    \/ ~HasColumn(df, Get(cfg.features.target).away_column)

\* the write of train.parquet is behind: written exactly when there are rows
TrainWritten ==
    pc \in {"write_inference", "write_all", "done"} =>
        (HasAttr(files[TrainFile]) <=> ~Empty(train_df))

NoRawTable == ~HasAttr(raw) \/ Empty(read_parquet(Get(raw)))

\* the clean stage: a selection is configured and none of its columns exists
NoSelectedResolved ==
    /\ clean_cfg.select_columns # <<>>
    /\ \A i \in 1..Len(clean_cfg.select_columns) :
          ~HasColumn(clean_df, clean_cfg.select_columns[i])

\* the clean stage leaves each of its skip cases without an interim file and
\* without an exception
CleanSkips ==
    /\ (clean_pc = "start" /\ NoRawTable) => (clean_pc' = "done" /\ interim' = <<>>)
    /\ (clean_pc = "validate" /\ MissingRequired(clean_df)) =>
          (clean_pc' = "done" /\ interim' = <<>>)
    /\ (clean_pc = "select" /\ (NoSelectedResolved \/ Empty(clean_df'))) =>
          (clean_pc' = "done" /\ interim' = <<>>)
    /\ (clean_pc = "done" /\ clean_pc' = "done") => interim' = interim

\* the feature-build stage: the interim file is absent or holds an empty table
NoInterimTable == ~HasAttr(interim) \/ Empty(read_parquet(Get(interim)))

\* the feature-build stage leaves a partition without a table without any file
NoTableSkips ==
    /\ (pc = "start" /\ NoInterimTable) => (pc' = "done" /\ files' = NoFiles)
    /\ (pc = "done" /\ pc' = "done") => files' = files

\* the feature-build stage: names are requested for the training output and
\* none of them is a column of the training table
NoFinalResolved ==
    /\ final_cols(cfg, TRUE) # <<>>
    /\ \A i \in 1..Len(final_cols(cfg, TRUE)) :
          /\ ~HasColumn(df, final_cols(cfg, TRUE)[i])
          /\ TargetSkipped \/ final_cols(cfg, TRUE)[i] # TargetName

\* the feature-build stage: a split is configured on a column the table lacks
StatusAbsent == HasSplit /\ ~StatusColumnPresent

\* the partition has run to its end, by return or by exception
Ended == pc \in {"done", "raised"} /\ HasAttr(interim) /\ ~Empty(df)

\* C26 as stated: an absent source file, an empty table after load or after
\* cleaning, a missing required column, no resolvable selected or final column
\* and an absent status column each end the partition without any output file
\* and without an exception
C26_SkipCasesNoOutput ==
    [][ /\ CleanSkips
        /\ NoTableSkips
        /\ (Ended /\ (NoFinalResolved \/ StatusAbsent))' =>
              (pc' = "done" /\ files' = NoFiles) ]_vars

\* C26 as amended: the clean-stage cases and the absent or empty interim table
\* end the partition without any output file; with no final column resolvable
\* the whole training table is written to train.parquet when it has rows; with
\* the status column absent neither train.parquet nor inference.parquet is
\* written, and dataset.parquet is written exactly when save_all is set; no
\* exception in any of these cases
C26_SkipCases ==
    [][ /\ CleanSkips
        /\ NoTableSkips
        /\ (Ended /\ StatusAbsent)' =>
              /\ pc' = "done"
              /\ files'[TrainFile] = <<>> /\ files'[InferenceFile] = <<>>
              /\ HasAttr(files'[AllFile]) <=> cfg.outputs.save_all
        /\ (Ended /\ NoFinalResolved /\ ~StatusAbsent)' =>
              /\ pc' = "done"
              /\ HasAttr(files'[TrainFile]) <=> ~Empty(train_df')
              /\ HasAttr(files'[TrainFile]) =>
                    Get(files'[TrainFile]).columns = df'.columns ]_vars

\* no requested column exists, and train.parquet was written all the same, with
\* every column of the table, next to dataset.parquet
C26_Witness ==
    /\ Ended /\ pc = "done"
    /\ NoFinalResolved /\ ~StatusAbsent
    /\ cfg.features.final_columns = <<"odds">>
    /\ HasAttr(files[TrainFile])
    /\ Get(files[TrainFile]).columns = df.columns
    /\ Len(Get(files[TrainFile]).rows) = 2
    /\ HasAttr(files[AllFile])

\* ------------------------------------------------------------- row order
\* the index labels of the table, which number the rows of the stage's input
\* from 0, ascend strictly and stay within the input
InInputOrder(t, input) ==
    /\ \A i, j \in 1..NRows(t) : i < j => t.rows[i].idx < t.rows[j].idx
    /\ \A i \in 1..NRows(t) : t.rows[i].idx \in 0..(Len(input.rows) - 1)

\* the stored file holds the rows of the table, one for one and in its order
StoredInOrder(file, t) ==
    HasAttr(file) =>
        /\ Len(Get(file).rows) = NRows(t)
        /\ \A i \in 1..NRows(t) : Get(file).rows[i] = t.rows[i].c

\* C27: the rows of the cleaned table, of the train table and of the inference
\* table are rows of the stage's input table in their input order, none twice,
\* and each output file stores the rows of its table in that order
C27_RowOrderPreserved ==
    /\ (clean_pc \notin {"off", "idle", "start"} /\ HasAttr(raw)) =>
          /\ InInputOrder(clean_df, Get(raw))
          /\ StoredInOrder(interim, clean_df)
    /\ (pc \notin {"off", "idle", "start"} /\ HasAttr(interim)) =>
          /\ InInputOrder(df, Get(interim))
          /\ InInputOrder(train_df, Get(interim))
          /\ InInputOrder(inference_df, Get(interim))
          /\ StoredInOrder(files[TrainFile], train_df)
          /\ StoredInOrder(files[InferenceFile], inference_df)
          /\ StoredInOrder(files[AllFile], df)

\* train.parquet holds the first and the third input row in that order,
\* inference.parquet the second
C27_Witness ==
    /\ pc = "done"
    /\ NRows(df) = 3
    /\ Labels(train_df) = <<0, 2>>
    /\ Labels(inference_df) = <<1>>
    /\ HasAttr(files[TrainFile]) /\ Len(Get(files[TrainFile]).rows) = 2
    /\ HasAttr(files[InferenceFile]) /\ Len(Get(files[InferenceFile]).rows) = 1

\* ------------------------------------------- lag values across the split
\* every row of the output carries, in the lag column of the entry, the source
\* value that the unsplit table has k rows above that row, or a missing value
\* when the unsplit table has no such row
LagFromUnsplit(t, e) ==
    (HasColumn(df, e.source_column) /\ HasColumn(t, e.new_column)) =>
        \A i \in 1..NRows(t) :
            LET at == t.rows[i].idx - e.periods
            IN t.rows[i].c[e.new_column] =
                  IF at \in 0..(NRows(df) - 1)
                  THEN df.rows[at + 1].c[e.source_column]
                  ELSE NaN

\* C28: the lag value of a row of the train or the inference output is the
\* source value of the row k positions earlier in the unsplit table, whatever
\* the status of that earlier row
C28_LagAcrossSplit ==
    AfterSplit =>
        \A e \in LagEntries :
            LagFromUnsplit(train_df, e) /\ LagFromUnsplit(inference_df, e)

\* a discarded match lies between two train matches: the second train row
\* carries the difference of the discarded match, not that of the first train row
C28_Witness ==
    /\ pc = "done" /\ StatusColumnPresent
    /\ NRows(df) = 3
    /\ Discarded(df.rows[2])
    /\ Labels(train_df) = <<0, 2>>
    /\ HasColumn(train_df, PointsDiff) /\ HasColumn(train_df, PointsDiffLag)
    /\ Column(train_df, PointsDiff) = <<Val(1), Val(1)>>
    /\ df.rows[2].c[PointsDiff] = Val(0)
    /\ Column(train_df, PointsDiffLag) = <<NaN, Val(0)>>

\* ------------------------------------------------- files of an earlier run
\* the file is in the partition's output directory as the earlier run left it
LeftAsItWas(f) == disk[f] = stale[f]

\* C30: a file that the run has not written for the partition is in the output
\* directory exactly as the earlier run left it, and a file that the run has
\* written holds what the run wrote: nothing is deleted, and nothing but the
\* produced files is rewritten
C30_UnproducedFilesUntouched ==
    /\ pc \notin {"off", "idle"} =>
          /\ \A f \in {TrainFile, InferenceFile, AllFile} :
                IF HasAttr(files[f]) THEN disk[f] = files[f] ELSE LeftAsItWas(f)
          /\ LeftAsItWas(InterimFile)
    /\ clean_pc \notin {"off", "idle"} =>
          /\ \A f \in {TrainFile, InferenceFile, AllFile} : LeftAsItWas(f)
          /\ IF HasAttr(interim) THEN disk[InterimFile] = interim
             ELSE LeftAsItWas(InterimFile)

\* the run found no train match: the train.parquet of the earlier run is still
\* there, next to the inference.parquet that this run wrote
C30_Witness ==
    /\ pc = "done" /\ HasAttr(interim)
    /\ NRows(df) = 2
    /\ Empty(train_df)
    /\ files[TrainFile] = <<>>
    /\ disk[TrainFile] = <<OldFile>>
    /\ HasAttr(files[InferenceFile])
    /\ disk[InferenceFile] = files[InferenceFile]
    /\ disk[InferenceFile] # <<OldFile>>

====
